---------------------------- MODULE Spec2Model ----------------------------
\* Model of the c-cote coupling layer (src/src/cote.c): one node, its
\* options record, its subscription daisy chain, the discovery added and
\* removed handlers, the Axon bind and message callbacks.
\*
\* Conventions
\*   - a C string is a sequence of one-character strings; a string pointer
\*     that may be NULL is NULL (the empty tuple) or Ptr(s) (the tuple of s);
\*   - a cJSON item is a record [t |-> kind, v |-> value]; a NULL cJSON
\*     pointer is JNull; an object is the sequence of its [k, v] members in
\*     the order they were added (cJSON keeps duplicates; a lookup returns
\*     the first member of that name);
\*   - function pointers and user pointers are the strings "NULL", "fA", ...
\*   - a section of code run between sem_wait and sem_post is one step.
EXTENDS Integers, Sequences, FiniteSets, Bags, TLC

\* ------------------------------------------------------------- bounds
\* Largest number of entries the subscription chain is allowed to reach.
MaxSubs == 2
\* Largest number of simultaneously open sockets to one endpoint that the
\* transport stub counts (a second connect to an open endpoint is counted).
MaxConn == 2

\* ------------------------------------------------------------- C strings
NULL == <<>>
Ptr(x) == <<x>>
Val(p) == p[1]

\* "message::" and "::" as the code writes them.
MESSAGE_PREFIX == <<"m", "e", "s", "s", "a", "g", "e", ":", ":">>
NS_SEPARATOR == <<":", ":">>
\* The fixed discovery key "$$".
COTE_KEY == <<"$", "$">>

AXON_PUB == <<"p", "u", "b", "-", "e", "m", "i", "t", "t", "e", "r">>
AXON_SUB == <<"s", "u", "b", "-", "e", "m", "i", "t", "t", "e", "r">>
AXON_REQ == <<"r", "e", "q">>
AXON_REP == <<"r", "e", "p">>

\* ------------------------------------------------------------- cJSON
JNull == [t |-> "nullptr"]
JStr(s) == [t |-> "string", v |-> s]
JNum(n) == [t |-> "number", v |-> n]
JArr(items) == [t |-> "array", v |-> items]
JObj(members) == [t |-> "object", v |-> members]
Member(k, item) == [k |-> k, v |-> item]

\* cJSON_GetObjectItemCaseSensitive: the first member of that name, or NULL.
RECURSIVE FirstMember(_, _, _)
FirstMember(members, k, i) ==
    IF i > Len(members) THEN JNull
    ELSE IF members[i].k = k THEN members[i].v
    ELSE FirstMember(members, k, i + 1)

cJSON_GetObjectItem(obj, k) ==
    IF obj.t = "object" THEN FirstMember(obj.v, k, 1) ELSE JNull

\* cJSON_GetStringValue: the string of a string item, NULL for anything else.
cJSON_GetStringValue(item) ==
    IF item.t = "string" THEN Ptr(item.v) ELSE NULL

\* cJSON_GetArraySize / cJSON_GetArrayItem.
cJSON_GetArraySize(item) ==
    IF item.t \in {"array", "object"} THEN Len(item.v) ELSE 0

cJSON_GetArrayItem(item, i) ==
    IF item.t = "array" /\ i \in 1..Len(item.v) THEN item.v[i] ELSE JNull

\* cJSON_AddItemToObject appends the member, whatever the object holds.
cJSON_AddItemToObject(obj, k, item) == JObj(Append(obj.v, Member(k, item)))

\* cJSON_DetachItemFromObjectCaseSensitive: the object without the first
\* member of that name.
RECURSIVE WithoutFirst(_, _)
WithoutFirst(members, k) ==
    IF members = <<>> THEN <<>>
    ELSE IF Head(members).k = k THEN Tail(members)
    ELSE <<Head(members)>> \o WithoutFirst(Tail(members), k)

\* ------------------------------------------------------------- regex
\* regcomp(REG_NOSUB | REG_EXTENDED) and regexec for the part of POSIX
\* extended syntax the model's strings use: ordinary characters, '.', a
\* starred character, and the anchors '^' and '$' (anchors wherever they
\* stand).  regexec searches: the pattern may match anywhere in the text.
\* A star with nothing to repeat (first, or right after an anchor) makes
\* regcomp fail.
RegComp(re) ==
    \A i \in 1..Len(re) :
        re[i] = "*" => (i > 1 /\ re[i - 1] \notin {"^", "$"})

RECURSIVE MatchHere(_, _, _)
MatchHere(re, text, i) ==
    IF re = <<>> THEN TRUE
    ELSE IF re[1] = "^" THEN i = 1 /\ MatchHere(Tail(re), text, i)
    ELSE IF re[1] = "$" THEN i = Len(text) + 1 /\ MatchHere(Tail(re), text, i)
    ELSE IF Len(re) >= 2 /\ re[2] = "*"
        THEN \E j \in i..(Len(text) + 1) :
                /\ \A q \in i..(j - 1) : re[1] = "." \/ re[1] = text[q]
                /\ MatchHere(SubSeq(re, 3, Len(re)), text, j)
    ELSE /\ i <= Len(text)
         /\ (re[1] = "." \/ re[1] = text[i])
         /\ MatchHere(Tail(re), text, i + 1)

RegExec(re, text) == \E i \in 1..(Len(text) + 1) : MatchHere(re, text, i)

\* The code's test: 0 == regcomp(...) and then 0 == regexec(...).
RegexMatch(re, text) == RegComp(re) /\ RegExec(re, text)


\* ------------------------------------------------------------- node state
VARIABLES
    type,       \* cote->type, fixed by cote_create
    port,       \* cote->port
    options,    \* cote->options (namespace_, use_hostname, ..., sem)
    subs,       \* cote->subs (first: the daisy chain as a sequence, sem)
    cb,         \* cote->cb: the fct of the added, removed, message, error events
    discover,   \* the Discover instance as the node drives it
    axon,       \* the Axon instance as the node drives it (sent: the messages
                \* the last cote_send handed to it)
    app,        \* the application thread calling the API
    io,         \* the Axon thread running the bind and message callbacks
    dsc,        \* the Discover thread running the added and removed callbacks
    crashed     \* the process was killed: a NULL dereference, a failed assert

vars == <<type, port, options, subs, cb, discover, axon, app, io, dsc, crashed>>

Types == {"PUB", "SUB", "REQ", "REP", "MON"}

\* cote->name, as given to cote_create.
NodeName == <<"s", "v", "c">>

\* ------------------------------------------------------------- topic namer
\* Mutant of cote_axon_format_fulltopic: the namespace is left out.
cote_axon_format_fulltopic_NoNamespace(ty, ns, topic, alloc) ==
    IF ~alloc THEN NULL
    ELSE IF ty \in {"PUB", "SUB"} THEN Ptr(MESSAGE_PREFIX \o topic)
    ELSE Ptr(topic)

\* cote_axon_format_fulltopic; alloc is whether malloc / strdup succeeds.
cote_axon_format_fulltopic(ty, ns, topic, alloc) ==
    IF ty \in {"PUB", "SUB"} THEN
        IF ~alloc THEN NULL
        ELSE IF ns # NULL
            THEN Ptr(MESSAGE_PREFIX \o Val(ns) \o NS_SEPARATOR \o topic)
            ELSE Ptr(MESSAGE_PREFIX \o topic)
    ELSE IF ty \in {"REQ", "REP"} THEN
        IF alloc THEN Ptr(topic) ELSE NULL
    ELSE NULL

\* ------------------------------------------------------------- advertisement
\* The role-specific topic list member added by the advertisement builder.
AddTopicList(ty, opts, adv, dup) ==
    IF ty = "PUB" /\ opts.broadcasts # JNull
        THEN (IF dup THEN cJSON_AddItemToObject(adv, "broadcasts", opts.broadcasts)
                     ELSE adv)
    ELSE IF ty = "SUB" /\ opts.subscribesTo # JNull
        THEN (IF dup THEN cJSON_AddItemToObject(adv, "subscribesTo", opts.subscribesTo)
                     ELSE adv)
    ELSE IF ty = "REQ" /\ opts.requests # JNull
        THEN (IF dup THEN cJSON_AddItemToObject(adv, "requests", opts.requests)
                     ELSE adv)
    ELSE IF ty = "REP" /\ opts.respondsTo # JNull
        THEN (IF dup THEN cJSON_AddItemToObject(adv, "respondsTo", opts.respondsTo)
                     ELSE adv)
    ELSE adv

\* The axon_type and port members, by role.
AddAxonTypeAndPort(ty, p, adv) ==
    IF ty = "PUB" THEN
        cJSON_AddItemToObject(
            cJSON_AddItemToObject(adv, "axon_type", JStr(AXON_PUB)), "port", JNum(p))
    ELSE IF ty = "SUB" THEN cJSON_AddItemToObject(adv, "axon_type", JStr(AXON_SUB))
    ELSE IF ty = "REQ" THEN cJSON_AddItemToObject(adv, "axon_type", JStr(AXON_REQ))
    ELSE IF ty = "REP" THEN
        cJSON_AddItemToObject(
            cJSON_AddItemToObject(adv, "axon_type", JStr(AXON_REP)), "port", JNum(p))
    ELSE cJSON_AddItemToObject(adv, "port", JNum(0))

\* The advertisement cote_discovery_set_advertisement hands to
\* discover_advertise (the duplicate or the fresh object was allocated); dup
\* is whether the copy of the topic list is allocated.
BuildAdvertisement(ty, p, opts, dup) ==
    LET a0 == IF opts.advertisement # JNull THEN opts.advertisement ELSE JObj(<<>>)
        a1 == cJSON_AddItemToObject(a0, "type",
                  JStr(IF ty = "MON" THEN <<"m", "o", "n", "i", "t", "o", "r">>
                                     ELSE <<"s", "e", "r", "v", "i", "c", "e">>))
        a2 == cJSON_AddItemToObject(a1, "name", JStr(NodeName))
        a3 == IF opts.namespace_ # NULL
                  THEN cJSON_AddItemToObject(a2, "namespace", JStr(Val(opts.namespace_)))
                  ELSE a2
        a4 == AddTopicList(ty, opts, a3, dup)
        a5 == cJSON_AddItemToObject(a4, "key", JStr(COTE_KEY))
    IN  AddAxonTypeAndPort(ty, p, a5)

\* cote_discovery_set_advertisement as a step: the discover instance after
\* the call (unchanged when the advertisement could not be allocated).
cote_discovery_set_advertisement(alloc, dup) ==
    /\ options.sem = 1
    /\ discover' = IF alloc
                     THEN [discover EXCEPT !.advertisement =
                              BuildAdvertisement(type, port, options, dup)]
                     ELSE discover

\* ------------------------------------------------------------- threads
\* The application thread between two API calls; ret is what the last call
\* returned.
AppReturns(ret) ==
    [pc |-> "idle", started |-> app.started, arg |-> <<>>, ret |-> ret]
\* The application thread inside an API call, at the step pc, with the
\* call's arguments and locals.
AppAt(pc, arg) ==
    [pc |-> pc, started |-> app.started, arg |-> arg, ret |-> 0]

\* The Axon thread outside any callback.
IoIdle ==
    [pc |-> "idle", amp |-> <<>>, topic |-> NULL, idx |-> 0, ret |-> "NULL",
     calls |-> <<>>]

\* A Discover thread outside any callback. prev is a history field, not in
\* the code: the peer of the last removed event the thread reported to the
\* application, kept only by DscReturnNoted.
DscIdle ==
    [pc |-> "idle", ev |-> "", node |-> JNull, port |-> 0, ret |-> 0, calls |-> <<>>,
     prev |-> JNull]
DscThreads == {"d1", "d2"}

\* ------------------------------------------------------------- cote_create
Init ==
    /\ type \in Types
    /\ port = 0
    /\ options = [namespace_ |-> NULL, use_hostname |-> FALSE,
                  advertisement |-> JNull, broadcasts |-> JNull,
                  subscribesTo |-> JNull, requests |-> JNull,
                  respondsTo |-> JNull, sem |-> 1]
    /\ subs = [first |-> <<>>, sem |-> 1]
    /\ cb = [added |-> "NULL", removed |-> "NULL", message |-> "NULL", error |-> "NULL"]
    /\ discover = [started |-> FALSE, advertisement |-> JNull]
    /\ axon = [on_message |-> FALSE, on_bind |-> FALSE, binding |-> FALSE,
               bound |-> FALSE, conns |-> EmptyBag, sent |-> <<>>]
    /\ app = [pc |-> "idle", started |-> FALSE, arg |-> <<>>, ret |-> 0]
    /\ io = IoIdle
    /\ dsc = [d \in DscThreads |-> DscIdle]
    /\ crashed = FALSE

\* ------------------------------------------------------------- cote_on
cote_on(event, fct) ==
    /\ ~crashed /\ app.pc = "idle"
    /\ cb' = IF event \in {"added", "removed", "message", "error"}
               THEN [cb EXCEPT ![event] = fct] ELSE cb
    /\ app' = AppReturns(0)
    /\ UNCHANGED <<type, port, options, subs, discover, axon, io, dsc, crashed>>

\* ------------------------------------------------------------- cote_set_option
\* The options forwarded to discover_set_option.
DiscoverOptions ==
    {"helloInterval", "checkInterval", "nodeTimeout", "masterTimeout", "address",
     "port", "broadcast", "multicast", "multicastTTL", "unicast", "key",
     "mastersRequired", "weight", "client", "reuseAddr", "ignoreProcess",
     "ignoreInstance", "hostname"}
JsonOptions == {"advertisement", "broadcasts", "subscribesTo", "requests", "respondsTo"}

\* The options record after the branch of cote_set_option for this option;
\* alloc is whether strdup / cJSON_Duplicate succeeds.
StoreOption(opts, option, value, alloc) ==
    IF option = "namespace"
        THEN [opts EXCEPT !.namespace_ = IF alloc THEN value ELSE NULL]
    ELSE IF option = "useHostNames" THEN [opts EXCEPT !.use_hostname = value]
    ELSE IF option \in JsonOptions
        THEN [opts EXCEPT ![option] = IF value # JNull /\ alloc THEN value ELSE JNull]
    ELSE opts

\* Mutant of StoreOptionRet: ret starts as 0.
StoreOptionRet_Zero(option, alloc, dret) ==
    IF option \in DiscoverOptions THEN dret
    ELSE IF option = "namespace" THEN (IF alloc THEN 0 ELSE -1)
    ELSE 0

\* ret of the first part of cote_set_option; dret is what
\* discover_set_option returns.
StoreOptionRet(option, alloc, dret) ==
    IF option \in DiscoverOptions THEN dret
    ELSE IF option = "namespace" THEN (IF alloc THEN 0 ELSE -1)
    ELSE IF option = "useHostNames" \/ option \in JsonOptions THEN 0
    ELSE -1

\* cote_set_option up to the sem_post of line 315.  The branch that replaces
\* a namespace stops after free (line 273), options.sem taken: until line 275
\* assigns the copy, options.namespace_ points to freed memory, which the
\* code that reads it without options.sem can see.
SetOptionStore(option, value, alloc, dret) ==
    /\ ~crashed /\ app.pc = "idle"
    /\ options.sem = 1
    /\ IF option = "namespace" /\ options.namespace_ # NULL
         THEN /\ options' = [options EXCEPT !.sem = 0]
              /\ app' = AppAt("set_option_strdup", [value |-> value, alloc |-> alloc])
         ELSE /\ options' = StoreOption(options, option, value, alloc)
              /\ app' = IF StoreOptionRet(option, alloc, dret) = 0
                          THEN AppAt("set_option_advertise", <<>>)
                          ELSE AppReturns(-1)
    /\ UNCHANGED <<type, port, subs, cb, discover, axon, io, dsc, crashed>>

\* Lines 275-278 and 315 after the free of the old namespace: the copy is
\* assigned and options.sem released.
SetOptionStrdup ==
    /\ ~crashed /\ app.pc = "set_option_strdup"
    /\ options' = [StoreOption(options, "namespace", app.arg.value, app.arg.alloc)
                     EXCEPT !.sem = 1]
    /\ app' = IF StoreOptionRet("namespace", app.arg.alloc, 0) = 0
                THEN AppAt("set_option_advertise", <<>>)
                ELSE AppReturns(-1)
    /\ UNCHANGED <<type, port, subs, cb, discover, axon, io, dsc, crashed>>

\* options.namespace_ has been freed and not yet assigned again.
NamespaceFreed == app.pc = "set_option_strdup"

\* cote_set_option from line 318: the advertisement is rebuilt and pushed.
SetOptionAdvertise(alloc, dup) ==
    /\ ~crashed /\ app.pc = "set_option_advertise"
    /\ cote_discovery_set_advertisement(alloc, dup)
    /\ app' = AppReturns(IF alloc THEN 0 ELSE -1)
    /\ UNCHANGED <<type, port, options, subs, cb, axon, io, dsc, crashed>>

\* ------------------------------------------------------------- cote_advertise
\* cote_advertise up to the sem_post of line 392: the copy of the object, or
\* NULL, replaces options.advertisement; alloc is whether cJSON_Duplicate
\* succeeds.
AdvertiseStore(advertisement, alloc) ==
    /\ ~crashed /\ app.pc = "idle"
    /\ options.sem = 1
    /\ options' = [options EXCEPT !.advertisement =
                      IF advertisement # JNull /\ alloc THEN advertisement ELSE JNull]
    /\ app' = AppAt("advertise_push", <<>>)
    /\ UNCHANGED <<type, port, subs, cb, discover, axon, io, dsc, crashed>>

\* cote_advertise, line 395: the advertisement is rebuilt and pushed.
AdvertisePush(alloc, dup) ==
    /\ ~crashed /\ app.pc = "advertise_push"
    /\ cote_discovery_set_advertisement(alloc, dup)
    /\ app' = AppReturns(IF alloc THEN 0 ELSE -1)
    /\ UNCHANGED <<type, port, options, subs, cb, axon, io, dsc, crashed>>

\* ------------------------------------------------------------- cote_start
\* Mutant of StartBegin: every type pushes its advertisement and goes on to
\* discover_start, PUB and REP after their axon_bind.
StartBegin_DiscoverAtStart(alloc, bindok, dup) ==
    /\ ~crashed /\ app.pc = "idle" /\ ~app.started
    /\ axon' = [axon EXCEPT !.on_message = type \in {"SUB", "REP"},
                            !.on_bind = type \in {"PUB", "REP"},
                            !.binding = type \in {"PUB", "REP"} /\ bindok]
    /\ cote_discovery_set_advertisement(alloc, dup)
    /\ app' = IF alloc
                THEN [AppAt("start_discover", <<>>) EXCEPT !.started = TRUE]
                ELSE [AppReturns(-1) EXCEPT !.started = TRUE]
    /\ UNCHANGED <<type, port, options, subs, cb, io, dsc, crashed>>

\* cote_start up to axon_bind (PUB, REP) or up to the advertisement (others);
\* bindok is whether axon_bind succeeds.
StartBegin(alloc, bindok, dup) ==
    /\ ~crashed /\ app.pc = "idle" /\ ~app.started
    /\ LET a1 == IF type \in {"SUB", "REP"}
                   THEN [axon EXCEPT !.on_message = TRUE] ELSE axon
       IN  IF type \in {"PUB", "REP"} THEN
               /\ axon' = [a1 EXCEPT !.on_bind = TRUE, !.binding = bindok]
               /\ discover' = discover
               /\ app' = [AppReturns(IF bindok THEN 0 ELSE -1) EXCEPT !.started = TRUE]
           ELSE
               /\ axon' = a1
               /\ cote_discovery_set_advertisement(alloc, dup)
               /\ app' = IF alloc
                           THEN [AppAt("start_discover", <<>>) EXCEPT !.started = TRUE]
                           ELSE [AppReturns(-1) EXCEPT !.started = TRUE]
    /\ UNCHANGED <<type, port, options, subs, cb, io, dsc, crashed>>

\* cote_start, lines 361-365: discover_start; startok is its result.
StartDiscover(startok) ==
    /\ ~crashed /\ app.pc = "start_discover"
    /\ discover' = [discover EXCEPT !.started = @ \/ startok]
    /\ app' = AppReturns(IF startok THEN 0 ELSE -1)
    /\ UNCHANGED <<type, port, options, subs, cb, axon, io, dsc, crashed>>

\* ------------------------------------------------------------- cote_axon_bind_cb
\* The ports the operating system may assign to axon_bind(0).
BoundPorts == {7001, 7002}

\* The error callback, when defined, is invoked with this string.
ErrorCall(err) == IF cb.error # "NULL" THEN <<[cb |-> "error", fct |-> cb.error, err |-> err]>>
                  ELSE <<>>

\* Lines 714-721: the type check and cote->port = port.
BindCbPort(p) ==
    /\ ~crashed /\ io.pc = "idle"
    /\ axon.on_bind /\ axon.binding
    /\ axon' = [axon EXCEPT !.binding = FALSE, !.bound = TRUE]
    /\ IF type \in {"PUB", "REP"}
         THEN /\ port' = p
              /\ io' = [IoIdle EXCEPT !.pc = "bind_advertise"]
         ELSE /\ port' = port
              /\ io' = [IoIdle EXCEPT !.pc = "return"]
    /\ UNCHANGED <<type, options, subs, cb, discover, app, dsc, crashed>>

\* Lines 723-731: the advertisement is pushed.
BindCbAdvertise(alloc, dup) ==
    /\ ~crashed /\ io.pc = "bind_advertise"
    /\ cote_discovery_set_advertisement(alloc, dup)
    /\ io' = IF alloc THEN [io EXCEPT !.pc = "bind_start"]
             ELSE [io EXCEPT !.pc = "return",
                     !.calls = ErrorCall("cote: unable to set advertisement")]
    /\ UNCHANGED <<type, port, options, subs, cb, axon, app, dsc, crashed>>

\* Lines 733-741: discover_start.
BindCbStart(startok) ==
    /\ ~crashed /\ io.pc = "bind_start"
    /\ discover' = [discover EXCEPT !.started = @ \/ startok]
    /\ io' = [io EXCEPT !.pc = "return",
                !.calls = IF startok THEN <<>>
                          ELSE ErrorCall("cote: unable to start discover instance")]
    /\ UNCHANGED <<type, port, options, subs, cb, axon, app, dsc, crashed>>

\* The callback returns to the Axon thread.
IoReturn ==
    /\ ~crashed /\ io.pc = "return"
    /\ io' = IoIdle
    /\ UNCHANGED <<type, port, options, subs, cb, discover, axon, app, dsc, crashed>>

\* ------------------------------------------------------------- subscriptions
\* An entry of the daisy chain (cote_sub_t).  arg is a history field, not in
\* the struct: the topic argument of the cote_subscribe call that wrote the
\* entry last.
SubEntry(fulltopic, fct, user, arg) ==
    [topic |-> fulltopic, fct |-> fct, user |-> user, arg |-> arg]

\* The position of the first entry whose topic is strcmp-equal to t, 0 if none.
RECURSIVE FindSub(_, _, _)
FindSub(chain, t, i) ==
    IF i > Len(chain) THEN 0
    ELSE IF chain[i].topic = t THEN i
    ELSE FindSub(chain, t, i + 1)

\* The chain without its entry at position i (unlink and free).
Unlink(chain, i) == SubSeq(chain, 1, i - 1) \o SubSeq(chain, i + 1, Len(chain))

\* Mutant of SubscribeChain: the loop never finds the topic, every call
\* inserts.
SubscribeChain_NoLookup(chain, fulltopic, fct, user, arg, alloc) ==
    IF alloc THEN Append(chain, SubEntry(fulltopic, fct, user, arg)) ELSE chain

\* The chain after the loop and the insertion of cote_subscribe, lines
\* 463-496; alloc is whether malloc and strdup succeed.
SubscribeChain(chain, fulltopic, fct, user, arg, alloc) ==
    LET i == FindSub(chain, fulltopic, 1)
    IN  IF i # 0 THEN [chain EXCEPT ![i].fct = fct, ![i].user = user, ![i].arg = arg]
        ELSE IF alloc THEN Append(chain, SubEntry(fulltopic, fct, user, arg))
        ELSE chain

SubscribeRet(chain, fulltopic, alloc) ==
    IF FindSub(chain, fulltopic, 1) # 0 \/ alloc THEN 0 ELSE -1

\* Mutant of UnsubscribeChain: the entry removed is the first whose pattern
\* matches the topic, as the router would find it.
UnsubscribeChain_Regex(chain, topic) ==
    LET hits == {i \in 1..Len(chain) : RegexMatch(chain[i].topic, topic)}
    IN  IF hits = {} THEN chain
        ELSE Unlink(chain, CHOOSE i \in hits : \A j \in hits : i <= j)

\* The chain after the loop of cote_unsubscribe, lines 532-547.
UnsubscribeChain(chain, topic) ==
    LET i == FindSub(chain, topic, 1)
    IN  IF i # 0 THEN Unlink(chain, i) ELSE chain

\* Mutant of SubscribeFormat: the type of the node is not checked.
SubscribeFormat_AnyType(topic, fct, user, alloc) ==
    /\ ~crashed /\ app.pc = "idle"
    /\ options.sem = 1
    /\ LET full == cote_axon_format_fulltopic(type, options.namespace_, topic, alloc)
       IN  /\ full # NULL => Len(subs.first) < MaxSubs
           /\ app' = IF full = NULL
                       THEN AppReturns(-1)
                       ELSE AppAt("subscribe_table",
                                  [topic |-> topic, fct |-> fct, user |-> user,
                                   fulltopic |-> Val(full)])
    /\ UNCHANGED <<type, port, options, subs, cb, discover, axon, io, dsc, crashed>>

\* cote_subscribe, lines 444-455: the type check and the fulltopic.
SubscribeFormat(topic, fct, user, alloc) ==
    /\ ~crashed /\ app.pc = "idle"
    /\ options.sem = 1
    /\ LET full == cote_axon_format_fulltopic(type, options.namespace_, topic, alloc)
       IN  /\ IF type \notin {"SUB", "REP"} \/ full = NULL THEN TRUE
              ELSE IF Len(subs.first) < MaxSubs THEN TRUE
              ELSE FindSub(subs.first, Val(full), 1) # 0
           /\ app' = IF type \notin {"SUB", "REP"} \/ full = NULL
                       THEN AppReturns(-1)
                       ELSE AppAt("subscribe_table",
                                  [topic |-> topic, fct |-> fct, user |-> user,
                                   fulltopic |-> Val(full)])
    /\ UNCHANGED <<type, port, options, subs, cb, discover, axon, io, dsc, crashed>>

\* cote_subscribe, lines 460-506: the chain is updated under subs.sem.
SubscribeTable(alloc) ==
    /\ ~crashed /\ app.pc = "subscribe_table"
    /\ subs.sem = 1
    /\ subs' = [subs EXCEPT !.first =
                   SubscribeChain(@, app.arg.fulltopic, app.arg.fct, app.arg.user,
                                  app.arg.topic, alloc)]
    /\ app' = AppReturns(SubscribeRet(subs.first, app.arg.fulltopic, alloc))
    /\ UNCHANGED <<type, port, options, cb, discover, axon, io, dsc, crashed>>

\* cote_unsubscribe.
Unsubscribe(topic) ==
    /\ ~crashed /\ app.pc = "idle"
    /\ IF type \notin {"SUB", "REP"}
         THEN /\ subs' = subs
              /\ app' = AppReturns(-1)
         ELSE /\ subs.sem = 1
              /\ subs' = [subs EXCEPT !.first = UnsubscribeChain(@, topic)]
              /\ app' = AppReturns(0)
    /\ UNCHANGED <<type, port, options, cb, discover, axon, io, dsc, crashed>>

\* ------------------------------------------------------------- cote_axon_message_cb
\* An AMP field, and what amp->first->data is for each type.
AmpString(s) == [type |-> "AMP_TYPE_STRING", data |-> JStr(s)]
AmpJson(item) == [type |-> "AMP_TYPE_JSON", data |-> item]

\* What a subscription callback may return: NULL or a reply built by
\* cote_reply.
Replies == {"NULL", "reply1"}

\* Mutant of TopicSkip: only the prefix is skipped.
TopicSkip_PrefixOnly(ns) == Len(MESSAGE_PREFIX)

\* The number of characters the SUB router skips, line 806-807.
TopicSkip(ns) == Len(MESSAGE_PREFIX) + (IF ns # NULL THEN Len(Val(ns)) + 2 ELSE 0)

\* topic_field->data + skip: the rest of the string, or a pointer past the
\* terminating NUL of the buffer.
PointerInto(text, skip) ==
    IF skip <= Len(text) THEN Ptr(SubSeq(text, skip + 1, Len(text)))
    ELSE <<text, skip>>

\* Mutant of RouterEnter: the message callback is not invoked.
RouterEnter_NoMessage(amp) ==
    /\ ~crashed /\ io.pc = "idle"
    /\ axon.on_message
    /\ io' = IF type \notin {"SUB", "REP"} \/ amp = <<>>
               THEN IoIdle
               ELSE [IoIdle EXCEPT !.pc = "lock", !.amp = amp]
    /\ UNCHANGED <<type, port, options, subs, cb, discover, axon, app, dsc, crashed>>

\* Lines 763-780: the type check, the field check, the message callback.
RouterEnter(amp) ==
    /\ ~crashed /\ io.pc = "idle"
    /\ axon.on_message
    /\ io' = IF type \notin {"SUB", "REP"} \/ amp = <<>>
               THEN IoIdle
               ELSE [IoIdle EXCEPT !.pc = "lock", !.amp = amp,
                       !.calls = IF cb.message # "NULL"
                                   THEN <<[cb |-> "message", fct |-> cb.message,
                                           amp |-> amp]>>
                                   ELSE <<>>]
    /\ UNCHANGED <<type, port, options, subs, cb, discover, axon, app, dsc, crashed>>

\* Mutant of RouterTopic: a first field without usable topic is dispatched
\* on the topic "t".
RouterTopic_Default(ty, chain, amp) ==
    IF chain = <<>> \/ ty \notin {"SUB", "REP"} THEN NULL
    ELSE IF ty = "SUB" /\ amp[1].type = "AMP_TYPE_STRING" THEN Ptr(amp[1].data.v)
    ELSE IF ty = "REP" /\ amp[1].type = "AMP_TYPE_JSON"
              /\ cJSON_GetStringValue(cJSON_GetObjectItem(amp[1].data, "type")) # NULL
        THEN cJSON_GetStringValue(cJSON_GetObjectItem(amp[1].data, "type"))
    ELSE Ptr(<<"t">>)

\* Whether the router enters its loop over the chain, and with which topic:
\* lines 789-794 (SUB) and 823-829 (REP).  The result is NULL or the topic.
RouterTopic(ty, chain, amp) ==
    IF chain = <<>> THEN NULL
    ELSE IF ty = "SUB" THEN
        IF amp[1].type = "AMP_TYPE_STRING" /\ amp[1].data # JNull
            THEN Ptr(amp[1].data.v) ELSE NULL
    ELSE IF ty = "REP" THEN
        IF amp[1].type = "AMP_TYPE_JSON" /\ amp[1].data # JNull
            THEN cJSON_GetStringValue(cJSON_GetObjectItem(amp[1].data, "type"))
            ELSE NULL
    ELSE NULL

\* The message the subscription callbacks are given: without its topic field
\* (SUB), with "type" detached from its first field (REP).
RouterAmp(ty, chain, amp) ==
    IF chain = <<>> THEN amp
    ELSE IF ty = "SUB" THEN
        IF amp[1].type = "AMP_TYPE_STRING" /\ amp[1].data # JNull
            THEN Tail(amp) ELSE amp
    ELSE IF ty = "REP" THEN
        IF amp[1].type = "AMP_TYPE_JSON" /\ amp[1].data.t = "object"
            THEN [amp EXCEPT ![1].data = JObj(WithoutFirst(amp[1].data.v, "type"))]
            ELSE amp
    ELSE amp

\* Mutant of RouterLock: the walk starts without sem_wait on subs.sem.
RouterLock_NoSem ==
    /\ ~crashed /\ io.pc = "lock"
    /\ subs' = subs
    /\ LET topic == RouterTopic(type, subs.first, io.amp)
       IN  io' = [io EXCEPT !.pc = IF topic = NULL THEN "unlock" ELSE "loop",
                            !.topic = topic,
                            !.amp = RouterAmp(type, subs.first, io.amp),
                            !.idx = 1]
    /\ UNCHANGED <<type, port, options, cb, discover, axon, app, dsc, crashed>>

\* Line 783, then the conditions that lead into the loop.
RouterLock ==
    /\ ~crashed /\ io.pc = "lock"
    /\ subs.sem = 1
    /\ subs' = [subs EXCEPT !.sem = 0]
    /\ LET topic == RouterTopic(type, subs.first, io.amp)
       IN  io' = [io EXCEPT !.pc = IF topic = NULL THEN "unlock" ELSE "loop",
                            !.topic = topic,
                            !.amp = RouterAmp(type, subs.first, io.amp),
                            !.idx = 1]
    /\ UNCHANGED <<type, port, options, cb, discover, axon, app, dsc, crashed>>

\* Mutant of RouterInvokes: the topics are compared with strcmp.
RouterInvokes_Strcmp(entry, topic) ==
    entry.fct # "NULL" /\ entry.topic = topic

\* Whether the loop invokes the callback of this entry for this topic.
RouterInvokes(entry, topic) ==
    entry.fct # "NULL" /\ RegexMatch(entry.topic, topic)

\* The topic argument of the subscription callback.
RouterTopicArg(ty, ns, topic) ==
    IF ty = "SUB" THEN PointerInto(topic, TopicSkip(ns)) ELSE Ptr(topic)

\* Mutant of RouterRet: a NULL return keeps the reply of an earlier callback.
RouterRet_KeepNonNull(ret, r) == IF r # "NULL" THEN r ELSE ret

\* ret after the callback of one matching entry returned r.
RouterRet(ret, r) == r

\* Lines 806-807: cote->options.namespace_ is read without options.sem.  When
\* cote_set_option has freed it and not yet assigned the copy, strlen runs
\* over freed memory: it may still hold the old string, or bytes the
\* allocator wrote there, or the read faults.
NamespaceRead(ty, hit) ==
    IF ty = "SUB" /\ hit /\ NamespaceFreed THEN {"stale", "garbage", "SIGSEGV"}
    ELSE {"stale"}

\* The topic argument when strlen found a NUL at the start of the freed block.
WildTopicArg(topic) == PointerInto(topic, Len(MESSAGE_PREFIX) + 2)

\* One turn of the loop over the chain, lines 798-815 and 832-845; r is what
\* the subscription callback returns when it is invoked.
RouterStep(r) ==
    /\ ~crashed /\ io.pc = "loop"
    /\ LET e == subs.first[io.idx]
           hit == RouterInvokes(e, Val(io.topic))
       IN  /\ hit \/ r = "NULL"
           /\ \E o \in NamespaceRead(type, hit) :
                 IF o = "SIGSEGV" THEN
                     /\ r = "NULL"
                     /\ crashed' = TRUE
                     /\ io' = [io EXCEPT !.pc = "killed"]
                 ELSE
                     /\ crashed' = crashed
                     /\ io' = [io EXCEPT
                          !.pc = IF io.idx = Len(subs.first) THEN "unlock" ELSE "loop",
                          !.idx = io.idx + 1,
                          !.ret = IF hit THEN RouterRet(io.ret, r) ELSE io.ret,
                          !.calls = IF hit
                                      THEN Append(io.calls,
                                             [cb |-> "subscription", idx |-> io.idx,
                                              fct |-> e.fct, user |-> e.user,
                                              topic |-> IF o = "garbage"
                                                        THEN WildTopicArg(Val(io.topic))
                                                        ELSE RouterTopicArg(type,
                                                           options.namespace_, Val(io.topic)),
                                              amp |-> io.amp,
                                              ret |-> r])
                                      ELSE io.calls]
    /\ UNCHANGED <<type, port, options, subs, cb, discover, axon, app, dsc>>

\* Line 853: sem_post, and the return of ret to the transport.
RouterLeave ==
    /\ ~crashed /\ io.pc = "unlock"
    /\ subs' = [subs EXCEPT !.sem = 1]
    /\ io' = IoIdle
    /\ UNCHANGED <<type, port, options, cb, discover, axon, app, dsc, crashed>>

\* ------------------------------------------------------------- cote_send
\* Mutant of cote_send_message: a REQ node sends whatever its first field is.
cote_send_message_AnyField(ty, ns, topic, fields, alloc, addok) ==
    IF ty = "PUB" THEN
        << <<AmpString(Val(cote_axon_format_fulltopic(ty, ns, topic, TRUE)))>> \o fields >>
    ELSE IF ty = "REQ" THEN << <<fields[1]>> >>
    ELSE <<>>

\* The messages cote_send hands to the transport, lines 572-631: none, or
\* one.  fields are the (type, data) pairs of the variable arguments; alloc
\* is whether the copy of the topic (PUB) or of the JSON (REQ) is allocated,
\* addok whether cJSON_AddStringToObject is, whose result line 616 ignores.
\* PUB: axon_vsend of the fulltopic followed by the fields.  REQ: axon_send of
\* one field, the copy of the JSON first field with "type" added at its end.
cote_send_message(ty, ns, topic, fields, alloc, addok) ==
    IF ty = "PUB" THEN
        LET fulltopic == cote_axon_format_fulltopic(ty, ns, topic, alloc)
        IN  IF fulltopic = NULL THEN <<>>
            ELSE << <<AmpString(Val(fulltopic))>> \o fields >>
    ELSE IF ty = "REQ" THEN
        IF fields[1].type = "AMP_TYPE_JSON" /\ fields[1].data # JNull /\ alloc
            THEN << <<AmpJson(IF addok
                                THEN cJSON_AddItemToObject(fields[1].data, "type",
                                                           JStr(topic))
                                ELSE fields[1].data)>> >>
            ELSE <<>>
    ELSE <<>>

\* What line 569, assert(NULL != cote->axon), does: cote_create makes no Axon
\* instance for a monitor (lines 191-204), so on a MON node the assertion
\* fails and abort() kills the process; a build with NDEBUG has no assertion
\* and goes on to the type check.
SendAssert(ty) == IF ty = "MON" THEN {"SIGABRT", "pass"} ELSE {"pass"}

\* Mutant of cote_send: the topic namer returns with options.sem taken.
cote_send_Holding(topic, fields, alloc, addok) ==
    /\ ~crashed /\ app.pc = "idle"
    /\ options.sem = 1
    /\ \E o \in SendAssert(type) :
          IF o = "SIGABRT" THEN
              /\ crashed' = TRUE
              /\ app' = AppAt("killed", <<>>)
              /\ options' = options
          ELSE
              LET msgs == cote_send_message(type, options.namespace_, topic, fields,
                                            alloc, addok)
              IN  /\ crashed' = crashed
                  /\ app' = IF msgs = <<>> THEN AppReturns(-1)
                                           ELSE AppAt("send_transport", msgs)
                  /\ options' = IF type = "PUB" THEN [options EXCEPT !.sem = 0]
                                                ELSE options
    /\ axon' = [axon EXCEPT !.sent = <<>>]
    /\ UNCHANGED <<type, port, subs, cb, discover, io, dsc>>

\* cote_send up to the call of the transport, lines 568-590 and 604-625: the
\* checks, and the message, whose topic the namer formats under options.sem
\* on a PUB node (options.sem is released when the namer returns).  Nothing
\* has been handed to the transport yet.
cote_send(topic, fields, alloc, addok) ==
    /\ ~crashed /\ app.pc = "idle"
    /\ options.sem = 1
    /\ \E o \in SendAssert(type) :
          IF o = "SIGABRT" THEN
              /\ crashed' = TRUE
              /\ app' = AppAt("killed", <<>>)
          ELSE
              LET msgs == cote_send_message(type, options.namespace_, topic, fields,
                                            alloc, addok)
              IN  /\ crashed' = crashed
                  /\ app' = IF msgs = <<>> THEN AppReturns(-1)
                                           ELSE AppAt("send_transport", msgs)
    /\ axon' = [axon EXCEPT !.sent = <<>>]
    /\ UNCHANGED <<type, port, options, subs, cb, discover, io, dsc>>

\* Lines 594 and 628: axon_vsend or axon_send, called with no semaphore
\* taken; sendret is what it returns, which cote_send returns.
SendTransport(sendret) ==
    /\ ~crashed /\ app.pc = "send_transport"
    /\ axon' = [axon EXCEPT !.sent = app.arg]
    /\ app' = AppReturns(sendret)
    /\ UNCHANGED <<type, port, options, subs, cb, discover, io, dsc, crashed>>

\* ------------------------------------------------------------- cote_release
\* cote_release, lines 644-647: nothing for a NULL node; otherwise
\* discover_release.  node is the argument: "NULL" or "cote".
ReleaseDiscover(node) ==
    /\ ~crashed /\ app.pc = "idle"
    /\ IF node = "NULL"
         THEN UNCHANGED <<discover, app>>
         ELSE /\ discover' = [started |-> FALSE, advertisement |-> JNull]
              /\ app' = AppAt("release_axon", <<>>)
    /\ UNCHANGED <<type, port, options, subs, cb, axon, io, dsc, crashed>>

\* Line 650: axon_release; the instance delivers no further event.  A
\* callback it is running goes on.
ReleaseAxon ==
    /\ ~crashed /\ app.pc = "release_axon"
    /\ axon' = [axon EXCEPT !.on_message = FALSE, !.on_bind = FALSE,
                            !.binding = FALSE, !.bound = FALSE, !.conns = EmptyBag]
    /\ app' = AppAt("release_subs", <<>>)
    /\ UNCHANGED <<type, port, options, subs, cb, discover, io, dsc, crashed>>

\* Mutant of ReleaseSubs: the entries are freed without sem_wait.
ReleaseSubs_NoWait ==
    /\ ~crashed /\ app.pc = "release_subs"
    /\ subs' = [subs EXCEPT !.first = <<>>]
    /\ app' = AppAt("release_options", <<>>)
    /\ UNCHANGED <<type, port, options, cb, discover, axon, io, dsc, crashed>>

\* Lines 653-664: sem_wait(subs.sem), every entry is freed, sem_post and
\* sem_close.
ReleaseSubs ==
    /\ ~crashed /\ app.pc = "release_subs"
    /\ subs.sem = 1
    /\ subs' = [subs EXCEPT !.first = <<>>]
    /\ app' = AppAt("release_options", <<>>)
    /\ UNCHANGED <<type, port, options, cb, discover, axon, io, dsc, crashed>>

\* Lines 667-695: the options are freed under options.sem, then the name
\* and the node.
ReleaseOptions ==
    /\ ~crashed /\ app.pc = "release_options"
    /\ options.sem = 1
    /\ options' = [namespace_ |-> NULL, use_hostname |-> options.use_hostname,
                   advertisement |-> JNull, broadcasts |-> JNull,
                   subscribesTo |-> JNull, requests |-> JNull,
                   respondsTo |-> JNull, sem |-> 1]
    /\ app' = AppAt("released", <<>>)
    /\ UNCHANGED <<type, port, subs, cb, discover, axon, io, dsc, crashed>>

\* A callback of the Axon thread that is still running once subs.sem is
\* closed works on a destroyed semaphore and, after line 695, on freed
\* memory: it may go on as the other actions say, or the process is killed.
IoAfterRelease ==
    /\ ~crashed /\ app.pc \in {"release_options", "released"}
    /\ io.pc \notin {"idle", "killed"}
    /\ crashed' = TRUE
    /\ io' = [io EXCEPT !.pc = "killed"]
    /\ UNCHANGED <<type, port, options, subs, cb, discover, axon, app, dsc>>

\* ------------------------------------------------------------- cote_discovery_check_node
\* The axon_type a node of this type expects of its peers, lines 1187-1190.
Counterpart(ty) ==
    IF ty = "PUB" THEN AXON_SUB
    ELSE IF ty = "SUB" THEN AXON_PUB
    ELSE IF ty = "REQ" THEN AXON_REP
    ELSE AXON_REQ

\* The outcomes of "if (strcmp(lit, p)) return -1;" for a p that may be NULL:
\* "pass" when the strings are equal, "drop" when they differ.  strcmp of a
\* NULL pointer is undefined: the process is killed by the read of address 0
\* ("SIGSEGV"), or the read yields bytes that are not the literal ("drop").
StrcmpCheck(lit, p) ==
    IF p = NULL THEN {"SIGSEGV", "drop"}
    ELSE IF Val(p) # lit THEN {"drop"} ELSE {"pass"}

\* Lines 1182-1193.
CheckAxonType(ty, adv) ==
    LET axon_type == cJSON_GetObjectItem(adv, "axon_type")
    IN  IF axon_type = JNull THEN {"drop"}
        ELSE StrcmpCheck(Counterpart(ty), cJSON_GetStringValue(axon_type))

\* Mutant of CheckKey: the member only has to be there.
CheckKey_Present(adv) ==
    IF cJSON_GetObjectItem(adv, "key") = JNull THEN {"drop"} ELSE {"pass"}

\* Lines 1194-1202.
CheckKey(adv) ==
    LET key == cJSON_GetObjectItem(adv, "key")
    IN  IF key = JNull THEN {"drop"}
        ELSE StrcmpCheck(COTE_KEY, cJSON_GetStringValue(key))

\* Mutant of CheckNamespace: a node without namespace takes every peer.
CheckNamespace_LocalOnly(ns, adv) ==
    LET namespace == cJSON_GetObjectItem(adv, "namespace")
    IN  IF ns = NULL THEN {"pass"}
        ELSE IF namespace = JNull THEN {"drop"}
        ELSE StrcmpCheck(Val(ns), cJSON_GetStringValue(namespace))

\* Lines 1203-1223, run under options.sem; ns is cote->options.namespace_.
CheckNamespace(ns, adv) ==
    LET namespace == cJSON_GetObjectItem(adv, "namespace")
    IN  IF ns # NULL THEN
            IF namespace = JNull THEN {"drop"}
            ELSE StrcmpCheck(Val(ns), cJSON_GetStringValue(namespace))
        ELSE IF namespace # JNull THEN {"drop"} ELSE {"pass"}

\* Lines 1173-1202: the outcomes cote_discovery_check_node reaches before its
\* sem_wait, which a MON node never reaches.
CheckBeforeSem(ty, node) ==
    IF node.advertisement = JNull THEN {"drop"}
    ELSE IF ty = "MON" THEN {"pass"}
    ELSE LET a == CheckAxonType(ty, node.advertisement)
             k == CheckKey(node.advertisement)
         IN  (a \ {"pass"}) \cup (IF "pass" \in a THEN k \ {"pass"} ELSE {})

\* Mutant of cote_discovery_check_node: a MON node checks its peers as a REP
\* node does.
cote_discovery_check_node_MonChecks(ty, ns, node) ==
    IF node.advertisement = JNull THEN {"drop"}
    ELSE LET a == CheckAxonType(ty, node.advertisement)
             k == CheckKey(node.advertisement)
             n == CheckNamespace(ns, node.advertisement)
         IN  (a \ {"pass"}) \cup
             (IF "pass" \in a
                THEN (k \ {"pass"}) \cup (IF "pass" \in k THEN n ELSE {})
                ELSE {})

\* cote_discovery_check_node: the set of its possible outcomes.
cote_discovery_check_node(ty, ns, node) ==
    IF node.advertisement = JNull THEN {"drop"}
    ELSE IF ty = "MON" THEN {"pass"}
    ELSE LET a == CheckAxonType(ty, node.advertisement)
             k == CheckKey(node.advertisement)
             n == CheckNamespace(ns, node.advertisement)
         IN  (a \ {"pass"}) \cup
             (IF "pass" \in a
                THEN (k \ {"pass"}) \cup (IF "pass" \in k THEN n ELSE {})
                ELSE {})

\* ------------------------------------------------------------- cote_discovery_added_cb
\* A Discover thread inside a callback: ev is the event, node the peer, ret
\* what cote_discovery_check_node returned, calls the calls made so far to
\* the transport and to the application's callbacks.
DscAt(pc, ev, node, p, ret, calls) ==
    [pc |-> pc, ev |-> ev, node |-> node, port |-> p, ret |-> ret, calls |-> calls,
     prev |-> JNull]

\* Lines 954-961: the port of the peer, 0 when the advertisement has none.
NodePort(node) ==
    LET tmp == cJSON_GetObjectItem(node.advertisement, "port")
    IN  IF tmp # JNull /\ tmp.t = "number" THEN tmp.v ELSE 0

\* Lines 945-965, and 1051-1055 for the removed event: the node is checked,
\* then, on a SUB or REQ node handling an added event, its port is read.
\* ret is 0 when the check passed, -1 when it dropped the node.
DiscoveryCheck(d, ev, node) ==
    /\ ~crashed /\ discover.started
    /\ dsc[d].pc = "idle"
    /\ \E o \in cote_discovery_check_node(type, options.namespace_, node) :
          /\ o \in CheckBeforeSem(type, node) \/ options.sem = 1
          /\ IF o = "SIGSEGV" THEN
                 /\ crashed' = TRUE
                 /\ dsc' = [dsc EXCEPT ![d] = DscAt("killed", ev, node, 0, -1, <<>>)]
             ELSE
                 /\ crashed' = crashed
                 /\ dsc' = [dsc EXCEPT ![d] = [
                       IF o # "pass" THEN DscAt("return", ev, node, 0, -1, <<>>)
                       ELSE IF ev = "removed"
                           THEN DscAt("removed_callback", ev, node, 0, 0, <<>>)
                       ELSE IF type \notin {"SUB", "REQ"}
                           THEN DscAt("added_callback", ev, node, 0, 0, <<>>)
                       ELSE IF NodePort(node) = 0
                           THEN DscAt("return", ev, node, 0, 0, <<>>)
                       ELSE DscAt("added_connect", ev, node, NodePort(node), 0, <<>>)
                       EXCEPT !.prev = dsc[d].prev]]
    /\ UNCHANGED <<type, port, options, subs, cb, discover, axon, app, io>>

\* The endpoint the node asks the transport about and connects to.
Endpoint(opts, node, p) ==
    <<IF opts.use_hostname THEN node.hostname ELSE node.address, p>>

\* Mutant of AlreadyConnected: the transport is not asked.
AlreadyConnected_Never(conns, ep) == FALSE

\* Lines 970-975: axon_is_connected, for a transport that reports every
\* endpoint it has opened.
AlreadyConnected(conns, ep) == CopiesIn(ep, conns) > 0

\* Lines 980-987: the lists the matcher compares.
ClientTopics(ty, opts) ==
    IF ty = "SUB" THEN opts.subscribesTo
    ELSE IF ty = "REQ" THEN opts.requests
    ELSE JNull

ServerTopics(ty, adv) ==
    IF ty = "SUB" THEN cJSON_GetObjectItem(adv, "broadcasts")
    ELSE IF ty = "REQ" THEN cJSON_GetObjectItem(adv, "respondsTo")
    ELSE JNull

\* Mutant of TopicsMatch: match starts as true.
TopicsMatch_Always(client_topics, server_topics) == TRUE

\* Lines 988-1010: the value of match after the two loops.
TopicsMatch(client_topics, server_topics) ==
    IF client_topics = JNull THEN TRUE
    ELSE IF server_topics = JNull THEN FALSE
    ELSE \E i \in 1..cJSON_GetArraySize(client_topics),
            j \in 1..cJSON_GetArraySize(server_topics) :
            LET str1 == cJSON_GetStringValue(cJSON_GetArrayItem(client_topics, i))
                str2 == cJSON_GetStringValue(cJSON_GetArrayItem(server_topics, j))
            IN  str1 # NULL /\ str2 # NULL /\ RegexMatch(Val(str1), Val(str2))

\* A call of the transport made by the added handler.
TransportCall(fn, ep, ret) == [cb |-> fn, ep |-> ep, ret |-> ret]

\* Mutant of AddedConnect: a failed connect leaves options.sem taken.
AddedConnect_Holding(d, connectok) ==
    /\ ~crashed /\ dsc[d].pc = "added_connect"
    /\ options.sem = 1
    /\ LET node == dsc[d].node
           ep == Endpoint(options, node, dsc[d].port)
           open == AlreadyConnected(axon.conns, ep)
           match == TopicsMatch(ClientTopics(type, options),
                                ServerTopics(type, node.advertisement))
           asked == <<TransportCall("axon_is_connected", ep, open)>>
       IN  IF open \/ ~match THEN
               /\ connectok
               /\ axon' = axon /\ options' = options
               /\ dsc' = [dsc EXCEPT ![d].pc = "return", ![d].calls = asked]
           ELSE IF connectok THEN
               /\ CopiesIn(ep, axon.conns) < MaxConn
               /\ axon' = [axon EXCEPT !.conns = @ (+) SetToBag({ep})]
               /\ options' = options
               /\ dsc' = [dsc EXCEPT ![d].pc = "added_callback",
                            ![d].calls = Append(asked, TransportCall("axon_connect", ep, 0))]
           ELSE
               /\ axon' = axon
               /\ options' = [options EXCEPT !.sem = 0]
               /\ dsc' = [dsc EXCEPT ![d].pc = "connect_error",
                            ![d].calls = Append(asked, TransportCall("axon_connect", ep, -1))]
    /\ UNCHANGED <<type, port, subs, cb, discover, app, io, crashed>>

\* Lines 967-1029: the section run under options.sem, up to the sem_post that
\* ends it; connectok is whether axon_connect succeeds.
AddedConnect(d, connectok) ==
    /\ ~crashed /\ dsc[d].pc = "added_connect"
    /\ options.sem = 1
    /\ LET node == dsc[d].node
           ep == Endpoint(options, node, dsc[d].port)
           open == AlreadyConnected(axon.conns, ep)
           match == TopicsMatch(ClientTopics(type, options),
                                ServerTopics(type, node.advertisement))
           asked == <<TransportCall("axon_is_connected", ep, open)>>
       IN  IF open \/ ~match THEN
               /\ connectok
               /\ axon' = axon
               /\ dsc' = [dsc EXCEPT ![d].pc = "return", ![d].calls = asked]
           ELSE IF connectok THEN
               /\ CopiesIn(ep, axon.conns) < MaxConn
               /\ axon' = [axon EXCEPT !.conns = @ (+) SetToBag({ep})]
               /\ dsc' = [dsc EXCEPT ![d].pc = "added_callback",
                            ![d].calls = Append(asked, TransportCall("axon_connect", ep, 0))]
           ELSE
               /\ axon' = axon
               /\ dsc' = [dsc EXCEPT ![d].pc = "connect_error",
                            ![d].calls = Append(asked, TransportCall("axon_connect", ep, -1))]
    /\ UNCHANGED <<type, port, options, subs, cb, discover, app, io, crashed>>

\* Lines 1021-1025: after the sem_post of a failed connect, the error
\* callback, if defined, and the return.
AddedConnectError(d) ==
    /\ ~crashed /\ dsc[d].pc = "connect_error"
    /\ dsc' = [dsc EXCEPT ![d].pc = "return",
                 ![d].calls = @ \o ErrorCall("cote: unable to connect to new node")]
    /\ UNCHANGED <<type, port, options, subs, cb, discover, axon, app, io, crashed>>

\* Mutant of DiscoveryCallback: only the removed callback is invoked.
DiscoveryCallback_RemovedOnly(d) ==
    /\ ~crashed /\ dsc[d].pc \in {"added_callback", "removed_callback"}
    /\ LET fct == cb[dsc[d].ev]
       IN  dsc' = [dsc EXCEPT ![d].pc = "return",
                     ![d].calls = IF fct # "NULL" /\ dsc[d].ev = "removed"
                                    THEN Append(@, [cb |-> dsc[d].ev, fct |-> fct,
                                                    node |-> dsc[d].node])
                                    ELSE @]
    /\ UNCHANGED <<type, port, options, subs, cb, discover, axon, app, io, crashed>>

\* Lines 1031-1035 and 1057-1063: the added or removed callback, if defined.
DiscoveryCallback(d) ==
    /\ ~crashed /\ dsc[d].pc \in {"added_callback", "removed_callback"}
    /\ LET fct == cb[dsc[d].ev]
       IN  dsc' = [dsc EXCEPT ![d].pc = "return",
                     ![d].calls = IF fct # "NULL"
                                    THEN Append(@, [cb |-> dsc[d].ev, fct |-> fct,
                                                    node |-> dsc[d].node])
                                    ELSE @]
    /\ UNCHANGED <<type, port, options, subs, cb, discover, axon, app, io, crashed>>

\* The handler returns to the Discover thread.
DscReturn(d) ==
    /\ ~crashed /\ dsc[d].pc = "return"
    /\ dsc' = [dsc EXCEPT ![d] = DscIdle]
    /\ UNCHANGED <<type, port, options, subs, cb, discover, axon, app, io, crashed>>

\* The same return, the thread noting the peer when the handler has just
\* invoked the removed callback for it on a node connected to its endpoint.
DscReturnNoted(d) ==
    /\ ~crashed /\ dsc[d].pc = "return"
    /\ dsc' = [dsc EXCEPT ![d] =
                 [DscIdle EXCEPT !.prev =
                     IF /\ dsc[d].ev = "removed" /\ dsc[d].calls # <<>>
                        /\ AlreadyConnected(axon.conns,
                              Endpoint(options, dsc[d].node, NodePort(dsc[d].node)))
                     THEN dsc[d].node ELSE dsc[d].prev]]
    /\ UNCHANGED <<type, port, options, subs, cb, discover, axon, app, io, crashed>>

\* ------------------------------------------------------------- error callbacks
\* Mutant of ForwardError: the error is dropped.
ForwardError_Dropped(err) == <<>>

\* Lines 874-877 and 1082-1085: the calls of the application's error
\* callback, one with the string as it was received when a callback is
\* registered, none otherwise.
ForwardError(err) ==
    IF cb.error # "NULL" THEN <<[cb |-> "error", fct |-> cb.error, err |-> err]>>
    ELSE <<>>

\* cote_axon_error_cb: the Axon instance, which every node but a monitor
\* has (lines 191-204), reports the error err on its thread.
cote_axon_error_cb(err) ==
    /\ ~crashed /\ io.pc = "idle"
    /\ type # "MON"
    /\ io' = [IoIdle EXCEPT !.pc = "return", !.calls = ForwardError(err)]
    /\ UNCHANGED <<type, port, options, subs, cb, discover, axon, app, dsc, crashed>>

\* cote_discovery_error_cb: the Discover instance reports the error err on
\* its thread d.
cote_discovery_error_cb(d, err) ==
    /\ ~crashed /\ dsc[d].pc = "idle"
    /\ dsc' = [dsc EXCEPT ![d] = DscAt("return", "error", JNull, 0, 0, ForwardError(err))]
    /\ UNCHANGED <<type, port, options, subs, cb, discover, axon, app, io, crashed>>

\* ------------------------------------------------------------- inputs
TopicT == <<"t">>
TopicT1 == <<"t", "1">>
NamespaceN == <<"n">>

\* Topic arguments of cote_subscribe, and of cote_unsubscribe (which is also
\* tried with the prefixed form of a topic).
SubscribeTopics == {TopicT, TopicT1}
UnsubscribeTopics == SubscribeTopics \cup {MESSAGE_PREFIX \o TopicT}

\* (fct, user) arguments of cote_subscribe.
SubscribeCallbacks == {<<"fA", "uA">>, <<"fB", "uB">>, <<"NULL", "uA">>}

\* Inbound AMP messages: PUB to SUB (topic string first), REQ to REP (JSON
\* with a "type" member first), and malformed ones.
Payload == Member("payload", JStr(<<"h", "i">>))

\* JSON bodies an application gives cote_send on a REQ node: one without and
\* one with a member named "type".
RequestBodies ==
    { JObj(<<Payload>>), JObj(<<Member("type", JStr(TopicT1)), Payload>>) }

\* The message a REP node receives when a REQ node sends body on topic: the
\* one field cote_send handed to axon_send.  The transport prints the JSON
\* and the receiver parses it, member by member and in order.
RequestMessage(topic, body) ==
    cote_send_message("REQ", NULL, topic, <<AmpJson(body)>>, TRUE, TRUE)[1]

RouterMessages ==
    { RequestMessage(t, b) : t \in SubscribeTopics, b \in RequestBodies } \cup
    { <<AmpString(MESSAGE_PREFIX \o TopicT), AmpString(<<"w">>)>>,
      <<AmpString(MESSAGE_PREFIX \o TopicT1)>>,
      <<AmpString(MESSAGE_PREFIX \o NamespaceN \o NS_SEPARATOR \o TopicT),
        AmpString(<<"w">>)>>,
      <<AmpJson(JObj(<<Payload, Member("type", JStr(TopicT))>>))>>,
      <<AmpJson(JObj(<<Member("type", JStr(TopicT1)), Payload>>))>>,
      <<AmpJson(JObj(<<Payload>>))>>,
      <<AmpJson(JObj(<<Member("type", JNum(5)), Payload>>))>>,
      <<AmpJson(JArr(<<JStr(TopicT)>>))>>,
      <<>> }

\* A peer as discovery reports it (discover_node_t): its address, its
\* hostname and its advertisement.
PeerNode(addr, host, adv) ==
    [address |-> addr, hostname |-> host, advertisement |-> adv]

\* A peer advertisement with the members that are given (JNull: no such
\* member), in the order the advertisement builder adds them.
PeerAdvertisement(axon_type, key, ns, listname, topics, p) ==
    JObj(SelectSeq(<<Member("namespace", ns), Member(listname, topics),
                     Member("key", key), Member("axon_type", axon_type),
                     Member("port", p)>>,
                   LAMBDA m : m.v # JNull))

\* The local topic list set with subscribesTo or requests: a member that is
\* no string, and a pattern anchored at the start.
ClientPattern == <<"^", "t">>
ClientList == JArr(<<JNum(5), JStr(ClientPattern)>>)
\* Peer topic lists: one with a string the pattern matches, one without.
ListMatch == JArr(<<JStr(<<"u">>), JStr(TopicT1)>>)
ListNoMatch == JArr(<<JNum(5), JStr(<<"u", "t">>)>>)

\* The option that sets the local topic list of a node of this type.
ClientOption(ty) == IF ty = "REQ" THEN "requests" ELSE "subscribesTo"
\* The member that carries the topic list of the peers of such a node.
ServerListName(ty) == IF ty = "REQ" THEN "respondsTo" ELSE "broadcasts"
\* An axon_type string that is not the one the node expects: its own.
OwnAxonType(ty) ==
    IF ty = "PUB" THEN AXON_PUB
    ELSE IF ty = "SUB" THEN AXON_SUB
    ELSE IF ty = "REP" THEN AXON_REP
    ELSE AXON_REQ

\* The peers reported to a node of this type: a peer it accepts, and peers
\* that differ from it in one member.
Peers(ty) ==
    LET c == JStr(Counterpart(ty))
        k == JStr(COTE_KEY)
        l == ServerListName(ty)
        n == JStr(NamespaceN)
        p == JNum(7001)
        at1(adv) == PeerNode("a1", "h1", adv)
    IN  { at1(PeerAdvertisement(c, k, JNull, l, ListMatch, p)),
          at1(PeerAdvertisement(c, k, n, l, ListMatch, p)),
          at1(PeerAdvertisement(c, k, JStr(<<"m">>), l, ListMatch, p)),
          at1(PeerAdvertisement(c, k, JNum(5), l, ListMatch, p)),
          at1(PeerAdvertisement(c, JStr(<<"$">>), JNull, l, ListMatch, p)),
          at1(PeerAdvertisement(c, JNull, JNull, l, ListMatch, p)),
          at1(PeerAdvertisement(c, JNum(5), JNull, l, ListMatch, p)),
          at1(PeerAdvertisement(JNull, k, JNull, l, ListMatch, p)),
          at1(PeerAdvertisement(JStr(OwnAxonType(ty)), k, JNull, l, ListMatch, p)),
          at1(PeerAdvertisement(JNum(5), k, JNull, l, ListMatch, p)),
          at1(PeerAdvertisement(c, k, JNull, l, ListNoMatch, p)),
          at1(PeerAdvertisement(c, k, JNull, l, JNull, p)),
          at1(PeerAdvertisement(c, k, JNull, l, ListMatch, JNull)),
          PeerNode("a2", "h2", PeerAdvertisement(c, k, JNull, l, ListMatch, p)),
          at1(JNull) }

\* Peers a node of this type without namespace accepts: two at the same
\* address and hostname, one that shares only the address, one elsewhere.
AcceptedPeers(ty) ==
    LET adv(topics) == PeerAdvertisement(JStr(Counterpart(ty)), JStr(COTE_KEY), JNull,
                                         ServerListName(ty), topics, JNum(7001))
    IN  { PeerNode("a1", "h1", adv(ListMatch)),
          PeerNode("a1", "h1", adv(JNull)),
          PeerNode("a1", "h2", adv(ListMatch)),
          PeerNode("a2", "h2", adv(ListMatch)) }

\* ------------------------------------------------------------- specifications
\* The steps every specification shares: the node is started, the Axon
\* socket is bound, API calls return.
\* outcomes: what an allocation, axon_bind or discover_start may do (TRUE:
\* it succeeds); ports: what the operating system may assign.
Lifecycle(outcomes, ports) ==
    \/ \E alloc \in outcomes, bindok \in outcomes, dup \in outcomes :
           StartBegin(alloc, bindok, dup)
    \/ \E startok \in outcomes : StartDiscover(startok)
    \/ \E p \in ports : BindCbPort(p)
    \/ \E alloc \in outcomes, dup \in outcomes : BindCbAdvertise(alloc, dup)
    \/ \E startok \in outcomes : BindCbStart(startok)
    \/ \E alloc \in outcomes, dup \in outcomes : SetOptionAdvertise(alloc, dup)
    \/ IoReturn

\* Subscriptions and the message router.
NextRouter ==
    \/ Lifecycle({TRUE}, {7001})
    \/ SetOptionStore("namespace", Ptr(NamespaceN), TRUE, 0)
    \/ SetOptionStrdup
    \/ \E t \in SubscribeTopics, f \in SubscribeCallbacks, alloc \in BOOLEAN :
           SubscribeFormat(t, f[1], f[2], alloc)
    \/ \E alloc \in BOOLEAN : SubscribeTable(alloc)
    \/ \E t \in UnsubscribeTopics : Unsubscribe(t)
    \/ \E amp \in RouterMessages : RouterEnter(amp)
    \/ RouterLock
    \/ \E r \in Replies : RouterStep(r)
    \/ RouterLeave

SpecRouter == Init /\ [][NextRouter]_vars

\* The local topic lists an application may set: none, an empty one, and
\* the one with a pattern.
LocalLists == {JNull, JArr(<<>>), ClientList}

\* Peers a node of this type without namespace accepts, each at its own
\* address, with the topic lists a peer may advertise: one the pattern
\* matches, one it does not, an empty one, none.
TopicPeers(ty) ==
    LET adv(topics) == PeerAdvertisement(JStr(Counterpart(ty)), JStr(COTE_KEY), JNull,
                                         ServerListName(ty), topics, JNum(7001))
    IN  { PeerNode("a1", "h1", adv(ListMatch)),
          PeerNode("a2", "h2", adv(ListNoMatch)),
          PeerNode("a3", "h3", adv(JArr(<<>>))),
          PeerNode("a4", "h4", adv(JNull)) }

\* Discovery events, reported by these Discover threads, of these kinds, for
\* these peers.
Discovery(threads, events, peers) ==
    \/ \E d \in threads, ev \in events, node \in peers : DiscoveryCheck(d, ev, node)
    \/ \E d \in threads, connectok \in BOOLEAN : AddedConnect(d, connectok)
    \/ \E d \in threads : AddedConnectError(d)
    \/ \E d \in threads : DiscoveryCallback(d)
    \/ \E d \in threads : DscReturn(d)

\* The peer matcher: one Discover thread reports added and removed events
\* for every peer, while the application sets callbacks and options.
NextMatcher ==
    \/ Lifecycle({TRUE}, {7001})
    \/ \E e \in {"added", "removed"} : cote_on(e, "fA")
    \/ SetOptionStore("namespace", Ptr(NamespaceN), TRUE, 0)
    \/ SetOptionStrdup
    \/ SetOptionStore("useHostNames", TRUE, TRUE, 0)
    \/ SetOptionStore(ClientOption(type), ClientList, TRUE, 0)
    \/ Discovery({"d1"}, {"added", "removed"}, Peers(type))

SpecMatcher == Init /\ [][NextMatcher]_vars

\* Connections: two Discover threads report added events for peers the node
\* accepts, some of them at the same endpoint.
NextConnect ==
    \/ Lifecycle({TRUE}, {7001})
    \/ cote_on("added", "fA")
    \/ SetOptionStore("useHostNames", TRUE, TRUE, 0)
    \/ Discovery(DscThreads, {"added"}, AcceptedPeers(type))

SpecConnect == Init /\ [][NextConnect]_vars

\* Topic lists: one Discover thread reports added events for accepted peers
\* with every kind of topic list, while the application sets its own list.
NextTopics ==
    \/ Lifecycle({TRUE}, {7001})
    \/ cote_on("added", "fA")
    \/ \E l \in LocalLists : SetOptionStore(ClientOption(type), l, TRUE, 0)
    \/ Discovery({"d1"}, {"added"}, TopicPeers(type))

SpecTopics == Init /\ [][NextTopics]_vars

\* Line 970: what axon_is_connected reads is the transport's own table; the
\* transport drops an endpoint from it when it sees the connection closed.
\* cote never asks for it: cote_discovery_removed_cb has no disconnect.
TransportClosed(ep) ==
    /\ ~crashed
    /\ CopiesIn(ep, axon.conns) > 0
    /\ axon' = [axon EXCEPT !.conns = @ (-) SetToBag({ep})]
    /\ UNCHANGED <<type, port, options, subs, cb, discover, app, io, dsc, crashed>>

\* Two peers with the same topic lists, at two addresses, that a node of this
\* type accepts.
ChurnPeers(ty) ==
    LET adv == PeerAdvertisement(JStr(Counterpart(ty)), JStr(COTE_KEY), JNull,
                                 ServerListName(ty), ListMatch, JNum(7001))
    IN  { PeerNode("a1", "h1", adv), PeerNode("a2", "h2", adv) }

\* The endpoints of these peers.
PeerEndpoints == {<<"a1", 7001>>, <<"a2", 7001>>}

\* Peers that come and go: the Discover threads report added and removed
\* events for peers the node accepts, and the transport may see a connection
\* closed at any time.
NextChurn ==
    \/ Lifecycle({TRUE}, {7001})
    \/ cote_on("added", "fA")
    \/ cote_on("removed", "fR")
    \/ SetOptionStore(ClientOption(type), ClientList, TRUE, 0)
    \/ \E d \in DscThreads, ev \in {"added", "removed"}, node \in ChurnPeers(type) :
          DiscoveryCheck(d, ev, node)
    \/ \E d \in DscThreads, connectok \in BOOLEAN : AddedConnect(d, connectok)
    \/ \E d \in DscThreads : AddedConnectError(d)
    \/ \E d \in DscThreads : DiscoveryCallback(d)
    \/ \E d \in DscThreads : DscReturnNoted(d)
    \/ \E ep \in PeerEndpoints : TransportClosed(ep)

SpecChurn == Init /\ [][NextChurn]_vars

\* Start-up: cote_start and the bind callback with every outcome of the
\* allocations, of axon_bind and of discover_start, while the application
\* sets an error callback and the namespace.
NextStart ==
    \/ Lifecycle(BOOLEAN, BoundPorts)
    \/ cote_on("error", "fE")
    \/ \E alloc \in BOOLEAN : SetOptionStore("namespace", Ptr(NamespaceN), alloc, 0)
    \/ SetOptionStrdup

SpecStart == Init /\ [][NextStart]_vars

\* The option, and the advertisement member, that carries the topic list of
\* a node of this type, lines 1116-1136; a monitor has none, and its
\* "broadcasts" option is stored without being advertised.
RoleList(ty) ==
    IF ty = "SUB" THEN "subscribesTo"
    ELSE IF ty = "REQ" THEN "requests"
    ELSE IF ty = "REP" THEN "respondsTo"
    ELSE "broadcasts"

\* A topic list option, and advertisement objects an application gives
\* cote_advertise or cote_set_option("advertisement"): one with a member of
\* its own, one with a port, one with members named like the built ones.
TopicList == JArr(<<JStr(TopicT)>>)
UserAdvertisements(ty) ==
    { JObj(<<Member("region", JStr(<<"e", "u">>))>>),
      JObj(<<Member("port", JNum(9))>>),
      JObj(<<Member("type", JStr(<<"x">>)), Member("name", JStr(<<"x">>)),
             Member("key", JStr(<<"x">>)), Member("axon_type", JStr(<<"x">>)),
             Member(RoleList(ty), JArr(<<JStr(<<"u">>)>>))>>) }

\* The advertisement: the application sets the topic list of its role, the
\* namespace and the advertisement object, before and after cote_start, with
\* every outcome of the allocations, of axon_bind and of discover_start.
NextAdvertise ==
    \/ Lifecycle(BOOLEAN, {7001})
    \/ \E v \in {TopicList, JNull}, alloc \in BOOLEAN :
           SetOptionStore(RoleList(type), v, alloc, 0)
    \/ SetOptionStore("namespace", Ptr(NamespaceN), TRUE, 0)
    \/ SetOptionStrdup
    \/ \E adv \in UserAdvertisements(type) \cup {JNull}, alloc \in BOOLEAN :
           AdvertiseStore(adv, alloc)
    \/ \E alloc \in BOOLEAN, dup \in BOOLEAN : AdvertisePush(alloc, dup)

SpecAdvertise == Init /\ [][NextAdvertise]_vars

\* An option name cote_set_option has no branch for.
UnknownOption == "bogus"

\* cote_set_option: a string, a flag and a list option, an option forwarded
\* to Discover and an unknown one, before and after start, with every
\* outcome of the copies, of discover_set_option and of the builder.
NextOptions ==
    \/ Lifecycle(BOOLEAN, {7001})
    \/ \E alloc \in BOOLEAN : SetOptionStore("namespace", Ptr(NamespaceN), alloc, 0)
    \/ SetOptionStrdup
    \/ \E flag \in BOOLEAN : SetOptionStore("useHostNames", flag, TRUE, 0)
    \/ \E list \in {TopicList, JNull}, alloc \in BOOLEAN :
           SetOptionStore(RoleList(type), list, alloc, 0)
    \/ \E dret \in {0, -1} : SetOptionStore("helloInterval", 2, TRUE, dret)
    \/ SetOptionStore(UnknownOption, Ptr(NamespaceN), TRUE, 0)

SpecOptions == Init /\ [][NextOptions]_vars

\* Error strings the transport and discovery raise.
ErrorStrings == {"axon: unable to connect", "discover: unable to send"}

\* Errors: the transport and discovery raise errors while the node starts
\* and binds and while the application registers and clears its error
\* callback and sets an option.
NextError ==
    \/ Lifecycle({TRUE}, {7001})
    \/ \E f \in {"fE", "NULL"} : cote_on("error", f)
    \/ SetOptionStore("namespace", Ptr(NamespaceN), TRUE, 0)
    \/ SetOptionStrdup
    \/ \E err \in ErrorStrings : cote_axon_error_cb(err)
    \/ \E err \in ErrorStrings : cote_discovery_error_cb("d1", err)
    \/ DscReturn("d1")

SpecError == Init /\ [][NextError]_vars

\* Release: the application subscribes, starts the node and releases it (or
\* releases a NULL node) while the Axon thread dispatches inbound messages.
NextRelease ==
    \/ Lifecycle({TRUE}, {7001})
    \/ \E t \in SubscribeTopics, f \in {<<"fA", "uA">>} :
           SubscribeFormat(t, f[1], f[2], TRUE)
    \/ SubscribeTable(TRUE)
    \/ \E amp \in RouterMessages : RouterEnter(amp)
    \/ RouterLock
    \/ \E r \in Replies : RouterStep(r)
    \/ RouterLeave
    \/ SetOptionStore("namespace", Ptr(NamespaceN), TRUE, 0)
    \/ SetOptionStrdup
    \/ \E node \in {"NULL", "cote"} : ReleaseDiscover(node)
    \/ ReleaseAxon
    \/ ReleaseSubs
    \/ ReleaseOptions
    \/ IoAfterRelease

SpecRelease == Init /\ [][NextRelease]_vars

\* Topics and variable arguments of cote_send.
SendTopics == {TopicT, TopicT1}
SendFields ==
    { <<AmpJson(b)>> : b \in RequestBodies } \cup
    { <<AmpJson(JNull)>>,
      <<AmpString(<<"w">>)>>,
      <<AmpString(<<"w">>), AmpJson(JObj(<<Payload>>))>> }

\* Sending: the application calls cote_send on a node of any type, with
\* every outcome of the allocations and of the transport, and sets the
\* namespace in between.
NextSend ==
    \/ Lifecycle({TRUE}, {7001})
    \/ SetOptionStore("namespace", Ptr(NamespaceN), TRUE, 0)
    \/ SetOptionStrdup
    \/ \E t \in SendTopics, f \in SendFields, alloc \in BOOLEAN, addok \in BOOLEAN :
           cote_send(t, f, alloc, addok)
    \/ \E sendret \in {0, -1} : SendTransport(sendret)

SpecSend == Init /\ [][NextSend]_vars

\* Failing connects: two Discover threads report added events for two peers
\* the node accepts, axon_connect fails or not, and the application sets the
\* error callback and the local topic list at any time.
NextFailure ==
    \/ Lifecycle({TRUE}, {7001})
    \/ cote_on("error", "fE")
    \/ SetOptionStore(ClientOption(type), ClientList, TRUE, 0)
    \/ Discovery(DscThreads, {"added"}, ChurnPeers(type))

SpecFailure == Init /\ [][NextFailure]_vars

\* The global message callback: the application registers it at any time
\* and subscribes, while the Axon thread routes every inbound message.
NextMessage ==
    \/ Lifecycle({TRUE}, {7001})
    \/ SetOptionStore("useHostNames", TRUE, TRUE, 0)
    \/ cote_on("message", "fM")
    \/ \E t \in SubscribeTopics, f \in {"fA", "NULL"} : SubscribeFormat(t, f, "uA", TRUE)
    \/ SubscribeTable(TRUE)
    \/ \E amp \in RouterMessages : RouterEnter(amp)
    \/ RouterLock
    \/ \E r \in Replies : RouterStep(r)
    \/ RouterLeave

SpecMessage == Init /\ [][NextMessage]_vars

\* Inbound messages for the two kinds of receiver, one each.
LockMessages ==
    { <<AmpString(MESSAGE_PREFIX \o NamespaceN \o NS_SEPARATOR \o TopicT), AmpString(<<"w">>)>>,
      RequestMessage(TopicT, JObj(<<Payload>>)) }

\* The two semaphores: every operation that takes options.sem or subs.sem,
\* the application in one thread, the router in the Axon thread and the
\* peer matcher in a Discover thread.
NextLocks ==
    \/ Lifecycle({TRUE}, {7001})
    \/ SetOptionStore("namespace", Ptr(NamespaceN), TRUE, 0)
    \/ SetOptionStrdup
    \/ SubscribeFormat(TopicT, "fA", "uA", TRUE)
    \/ SubscribeTable(TRUE)
    \/ Unsubscribe(MESSAGE_PREFIX \o TopicT)
    \/ \E amp \in LockMessages : RouterEnter(amp)
    \/ RouterLock
    \/ \E r \in Replies : RouterStep(r)
    \/ RouterLeave
    \/ cote_send(TopicT, <<AmpJson(JObj(<<Payload>>))>>, TRUE, TRUE)
    \/ SendTransport(0)
    \/ Discovery({"d1"}, {"added"}, ChurnPeers(type))

SpecLocks == Init /\ [][NextLocks]_vars

\* ------------------------------------------------------------- properties
\* The calls of subscription callbacks the router made for the message it is
\* dispatching.
SubscriptionCalls == SelectSeq(io.calls, LAMBDA c : c.cb = "subscription")

\* C1: the chain never holds two entries with the same fulltopic, and a
\* cote_subscribe that returns 0 leaves exactly one entry for its fulltopic,
\* holding the callback and the user pointer of that call.
C1_UniqueFulltopic ==
    /\ [](\A i, j \in 1..Len(subs.first) :
             i # j => subs.first[i].topic # subs.first[j].topic)
    /\ [][(app.pc = "subscribe_table" /\ app'.pc = "idle" /\ app'.ret = 0) =>
            /\ Cardinality({i \in 1..Len(subs'.first) :
                              subs'.first[i].topic = app.arg.fulltopic}) = 1
            /\ \A i \in 1..Len(subs'.first) :
                  subs'.first[i].topic = app.arg.fulltopic =>
                      /\ subs'.first[i].fct = app.arg.fct
                      /\ subs'.first[i].user = app.arg.user]_vars

\* C1 witness: a second cote_subscribe of a topic whose entry exists, with
\* another callback and user pointer, has computed its fulltopic and is
\* about to write the chain.
C1_Witness ==
    /\ type \in {"SUB", "REP"}
    /\ app.pc = "subscribe_table"
    /\ \E i \in 1..Len(subs.first) :
          /\ subs.first[i].topic = app.arg.fulltopic
          /\ subs.first[i].arg = app.arg.topic
          /\ subs.first[i].fct # app.arg.fct
          /\ subs.first[i].user # app.arg.user

\* C2 (as claimed): when cote_unsubscribe(t) returns on a SUB or REP node,
\* the chain holds no entry that a cote_subscribe(t, ...) wrote, so no later
\* message can reach the callback registered under t.
C2_UnsubscribeRemoves ==
    [][\A t \in UnsubscribeTopics :
          (Unsubscribe(t) /\ type \in {"SUB", "REP"}) =>
              \A i \in 1..Len(subs'.first) : subs'.first[i].arg # t]_vars

\* The positions, in order, of the entries among the first n whose callback
\* is set and whose fulltopic, as an extended regular expression, matches.
RECURSIVE MatchingEntries(_, _, _)
MatchingEntries(chain, topic, n) ==
    IF n = 0 THEN <<>>
    ELSE MatchingEntries(chain, topic, n - 1) \o
         (IF chain[n].fct # "NULL" /\ RegComp(chain[n].topic)
                /\ RegExec(chain[n].topic, topic)
            THEN <<n>> ELSE <<>>)

\* C9: while the router goes through the chain for one message, the
\* subscription callbacks it has invoked are exactly those of the entries
\* passed so far whose fulltopic matches the inbound topic, each once, in the
\* order of the chain, with the entry's callback and user pointer.
C9_DispatchInOrder ==
    (io.pc \in {"loop", "unlock"} /\ io.topic # NULL) =>
        LET done == IF io.pc = "unlock" THEN Len(subs.first) ELSE io.idx - 1
            want == MatchingEntries(subs.first, Val(io.topic), done)
            got == SubscriptionCalls
        IN  /\ Len(got) = Len(want)
            /\ \A k \in 1..Len(got) :
                  /\ got[k].idx = want[k]
                  /\ got[k].fct = subs.first[want[k]].fct
                  /\ got[k].user = subs.first[want[k]].user

\* C9 witness: the loop is over, two entries matched and were invoked in the
\* order of the chain, the second one being an entry whose fulltopic is not
\* the inbound topic itself.
C9_Witness ==
    /\ io.pc = "unlock" /\ io.topic # NULL
    /\ Len(SubscriptionCalls) = 2
    /\ SubscriptionCalls[1].idx = 1 /\ SubscriptionCalls[2].idx = 2
    /\ subs.first[1].topic = Val(io.topic)
    /\ subs.first[2].topic # Val(io.topic)

\* The last non-NULL value of a sequence of returned values, NULL if none.
RECURSIVE LastNonNull(_)
LastNonNull(calls) ==
    IF calls = <<>> THEN "NULL"
    ELSE IF calls[Len(calls)].ret # "NULL" THEN calls[Len(calls)].ret
    ELSE LastNonNull(SubSeq(calls, 1, Len(calls) - 1))

\* C10 (as claimed): on a REP node the reply handed back to the transport is
\* the last non-NULL value the matching callbacks returned.
C10_LastNonNullReply ==
    (type = "REP" /\ io.pc = "unlock") => io.ret = LastNonNull(SubscriptionCalls)

\* C10 (amended): on a REP node the reply handed back to the transport is
\* the value returned by the last matching callback invoked, NULL included;
\* it is NULL when no callback was invoked.
C10_LastReply ==
    (type = "REP" /\ io.pc = "unlock") =>
        io.ret = IF SubscriptionCalls = <<>> THEN "NULL"
                 ELSE SubscriptionCalls[Len(SubscriptionCalls)].ret

\* C10 witness: two callbacks matched, the first returned a reply, the
\* second NULL, and the reply handed back is NULL.
C10_Witness ==
    /\ type = "REP" /\ io.pc = "unlock"
    /\ Len(SubscriptionCalls) = 2
    /\ SubscriptionCalls[1].ret = "reply1"
    /\ SubscriptionCalls[2].ret = "NULL"
    /\ io.ret = "NULL"

\* The calls of this name a Discover thread made for the event it handles.
CallsOf(t, name) == SelectSeq(t.calls, LAMBDA c : c.cb = name)

\* The event of a Discover thread was dropped by the check of the node: the
\* handler returns -1 from the check and has called nothing.
Dropped(t) == t.pc = "return" /\ t.ret = -1 /\ t.calls = <<>>

\* C3: on a node that is no monitor, an added event whose peer advertisement
\* has no key member, or a key that is not the string "$$", leads to no call
\* of axon_connect and to no call of the added callback, whatever else the
\* advertisement holds.
C3_KeyRequired ==
    type # "MON" =>
        \A d \in DscThreads :
            (dsc[d].ev = "added"
                /\ cJSON_GetObjectItem(dsc[d].node.advertisement, "key") # JStr(COTE_KEY))
            => /\ dsc[d].pc \notin {"added_connect", "added_callback"}
               /\ CallsOf(dsc[d], "axon_connect") = <<>>
               /\ CallsOf(dsc[d], "added") = <<>>

\* C3 witness: an added event was handled for a peer that the node would
\* accept (axon_type, namespace, port) but for its key "$", with an added
\* callback defined, and the handler is about to return.
C3_Witness ==
    /\ type \in {"SUB", "REQ"} /\ cb.added # "NULL"
    /\ \E d \in DscThreads :
          LET adv == dsc[d].node.advertisement
          IN  /\ dsc[d].ev = "added" /\ dsc[d].pc = "return"
              /\ cJSON_GetObjectItem(adv, "key") = JStr(<<"$">>)
              /\ cJSON_GetObjectItem(adv, "axon_type") = JStr(Counterpart(type))
              /\ CheckNamespace(options.namespace_, adv) = {"pass"}
              /\ NodePort(dsc[d].node) # 0

\* Whether the namespace member of a peer advertisement differs from the
\* local namespace setting: another string or no string, or one of the two
\* is missing.
NamespaceDiffers(ns, adv) ==
    IF ns = NULL THEN cJSON_GetObjectItem(adv, "namespace") # JNull
    ELSE cJSON_GetObjectItem(adv, "namespace") # JStr(Val(ns))

\* C4: on a SUB or REQ node, an added event whose peer namespace differs
\* from the local namespace setting read by the handler is dropped by the
\* check of the node (or the process is killed), and a handler that dropped
\* its event only returns: axon_connect is never called for that peer.
C4_NamespaceIsolation ==
    [][\A d \in DscThreads :
          /\ (/\ type \in {"SUB", "REQ"}
              /\ dsc[d].pc = "idle" /\ dsc'[d].pc # "idle" /\ dsc'[d].ev = "added"
              /\ NamespaceDiffers(options.namespace_, dsc'[d].node.advertisement))
             => (dsc'[d].calls = <<>> /\ (Dropped(dsc'[d]) \/ dsc'[d].pc = "killed"))
          /\ (Dropped(dsc[d]) \/ dsc[d].pc = "killed")
             => (dsc'[d] = dsc[d] \/ dsc'[d] = DscIdle)]_vars

\* C4 witness: a SUB or REQ node with namespace "n" has dropped the added
\* event of a peer with namespace "m" that it would accept otherwise.
C4_Witness ==
    /\ type \in {"SUB", "REQ"} /\ options.namespace_ = Ptr(NamespaceN)
    /\ \E d \in DscThreads :
          LET adv == dsc[d].node.advertisement
          IN  /\ dsc[d].ev = "added" /\ Dropped(dsc[d])
              /\ cJSON_GetObjectItem(adv, "namespace") = JStr(<<"m">>)
              /\ cJSON_GetObjectItem(adv, "key") = JStr(COTE_KEY)
              /\ cJSON_GetObjectItem(adv, "axon_type") = JStr(Counterpart(type))
              /\ NodePort(dsc[d].node) # 0

\* C5: on a SUB or REQ node, with a transport that reports every endpoint it
\* has opened, axon_connect succeeds at most once per endpoint, whatever the
\* order and interleaving of the added events.
C5_ConnectOnce ==
    type \in {"SUB", "REQ"} =>
        \A ep \in BagToSet(axon.conns) : CopiesIn(ep, axon.conns) <= 1

\* C5 witness: one Discover thread has connected to an endpoint, and the
\* other, handling an added event for the same endpoint, was told by the
\* transport that it is connected and is about to return without connect.
C5_Witness ==
    /\ type \in {"SUB", "REQ"}
    /\ \E d1, d2 \in DscThreads :
          /\ d1 # d2
          /\ CallsOf(dsc[d1], "axon_connect") # <<>>
          /\ CallsOf(dsc[d1], "axon_connect")[1].ret = 0
          /\ dsc[d2].pc = "return"
          /\ dsc[d2].calls = <<TransportCall("axon_is_connected",
                                  CallsOf(dsc[d1], "axon_connect")[1].ep, TRUE)>>

\* Whether some string of the local list, taken as an extended regular
\* expression, matches some string of the peer's list.
PairMatches(client_topics, server_topics) ==
    /\ server_topics # JNull
    /\ \E i \in 1..Len(client_topics.v), j \in 1..Len(server_topics.v) :
          /\ client_topics.v[i].t = "string" /\ server_topics.v[j].t = "string"
          /\ RegComp(client_topics.v[i].v)
          /\ RegExec(client_topics.v[i].v, server_topics.v[j].v)

\* C6: a SUB (REQ) node whose subscribesTo (requests) list is set calls
\* axon_connect for a peer only if some pattern of the list matches some
\* string of the peer's broadcasts (respondsTo) list.
C6_TopicIntersection ==
    [][\A d \in DscThreads :
          (/\ type \in {"SUB", "REQ"}
           /\ dsc[d].pc = "added_connect"
           /\ CallsOf(dsc'[d], "axon_connect") # <<>>
           /\ ClientTopics(type, options) # JNull)
          => PairMatches(ClientTopics(type, options),
                         ServerTopics(type, dsc[d].node.advertisement))]_vars

\* C6 witness: with the local list set, the node has called axon_connect for
\* a peer whose list holds a string that the anchored pattern matches, next
\* to one it does not.
C6_Witness ==
    /\ type \in {"SUB", "REQ"} /\ ClientTopics(type, options) = ClientList
    /\ \E d \in DscThreads :
          /\ CallsOf(dsc[d], "axon_connect") # <<>>
          /\ ServerTopics(type, dsc[d].node.advertisement) = ListMatch

\* C7 (as claimed): on a node that is no monitor, an event (added or
\* removed) for a peer whose axon_type is missing or is anything but the
\* counterpart of the local role is dropped: the handler returns without
\* calling axon_connect, the added callback or the removed callback.
C7_AxonTypePairing ==
    type # "MON" =>
        \A d \in DscThreads :
            (dsc[d].pc # "idle"
                /\ cJSON_GetObjectItem(dsc[d].node.advertisement, "axon_type")
                       # JStr(Counterpart(type)))
            => Dropped(dsc[d])

\* Whether the advertisement pushed to discovery carries this port.
AdvertisesPort(adv, p) ==
    adv # JNull /\ \E i \in 1..Len(adv.v) : adv.v[i] = Member("port", JNum(p))

\* C8: on a PUB or REP node cote_start never reaches discover_start; the
\* bind callback pushes the advertisement only once the bound port is
\* recorded and starts discovery only once that advertisement is pushed; so
\* discovery is started only on a bound socket whose port is advertised.
C8_BindBeforeDiscovery ==
    type \in {"PUB", "REP"} =>
        /\ app.pc # "start_discover"
        /\ io.pc = "bind_advertise" =>
              axon.bound /\ port \in BoundPorts /\ ~discover.started
        /\ (io.pc = "bind_start" \/ discover.started) =>
              axon.bound /\ port \in BoundPorts
                  /\ AdvertisesPort(discover.advertisement, port)

\* C8 witness: a PUB or REP node whose cote_start returned 0 with nothing
\* started, and whose bind callback then recorded the port and started
\* discovery.
C8_Witness ==
    /\ type \in {"PUB", "REP"}
    /\ app.started /\ axon.bound /\ port \in BoundPorts
    /\ discover.started /\ io.pc = "return"


\* The first field of a PUB to SUB message for user topic t under namespace
\* ns, written out: "message::" ns "::" t, or "message::" t.
WireTopic(ns, t) ==
    IF ns # NULL THEN MESSAGE_PREFIX \o Val(ns) \o NS_SEPARATOR \o t
    ELSE MESSAGE_PREFIX \o t

\* C11: on a SUB node, when the first field of an inbound message is the
\* wire form of user topic t for the namespace the node holds, the router
\* takes that field off the message, and every subscription callback it
\* invokes for the message is given exactly t as the topic and the message
\* without its topic field.
C11_StrippedTopic ==
    [][ /\ (type = "SUB" /\ io.pc = "lock" /\ io'.pc = "loop")
            => io'.amp = Tail(io.amp) /\ io'.topic = Ptr(io.amp[1].data.v)
        /\ (type = "SUB" /\ io.pc = "loop" /\ Len(io'.calls) > Len(io.calls))
            => \A t \in SubscribeTopics :
                  Val(io.topic) = WireTopic(options.namespace_, t)
                     => LET c == io'.calls[Len(io'.calls)]
                        IN  c.topic = Ptr(t) /\ c.amp = io.amp ]_vars

\* C11 happens: a SUB node in namespace "n" dispatched "message::n::t" to
\* a subscription, which got the topic "t" and the one field that was left.
C11_Witness ==
    /\ type = "SUB" /\ options.namespace_ = Ptr(NamespaceN)
    /\ io.topic = Ptr(MESSAGE_PREFIX \o NamespaceN \o NS_SEPARATOR \o TopicT)
    /\ \E i \in 1..Len(io.calls) :
          /\ io.calls[i].cb = "subscription"
          /\ io.calls[i].topic = Ptr(TopicT)
          /\ io.calls[i].amp = <<AmpString(<<"w">>)>>

\* C12: on a REP node, for an inbound request a REQ node sent with body b
\* on topic t, the router enters its loop with the topic t and with b itself,
\* that is the message without the "type" member cote_send added, and each
\* subscription callback invoked for the request is given that topic and
\* that message.
C12_RequestTopic ==
    [][ /\ \A t \in SubscribeTopics, b \in RequestBodies :
              (type = "REP" /\ io.pc = "lock" /\ io'.pc = "loop"
                 /\ io.amp = RequestMessage(t, b))
                => io'.topic = Ptr(t) /\ io'.amp = <<AmpJson(b)>>
        /\ (type = "REP" /\ io.pc = "loop" /\ Len(io'.calls) > Len(io.calls))
              => LET c == io'.calls[Len(io'.calls)]
                 IN  c.topic = io.topic /\ c.amp = io.amp ]_vars

\* C13: the topic namer returns "message::" ns "::" topic with a namespace
\* and "message::" topic without one on PUB and SUB nodes, and the topic
\* itself on REQ and REP nodes; and a cote_send on a PUB node that reaches
\* the transport hands it one message whose first field is that string for
\* the namespace the node holds at the call, followed by the caller's fields.
C13_Fulltopic ==
    /\ [](\A ty \in Types \ {"MON"}, ns \in {NULL, Ptr(NamespaceN)}, t \in SendTopics :
            cote_axon_format_fulltopic(ty, ns, t, TRUE) =
                IF ty \in {"PUB", "SUB"} THEN Ptr(WireTopic(ns, t)) ELSE Ptr(t))
    /\ [][/\ \A t \in SendTopics, f \in SendFields :
              (type = "PUB" /\ app'.pc = "send_transport"
                 /\ \E alloc \in BOOLEAN, addok \in BOOLEAN : cote_send(t, f, alloc, addok))
                => app'.arg = << <<AmpString(WireTopic(options.namespace_, t))>> \o f >>
          /\ (app.pc = "send_transport" /\ app' # app) => axon'.sent = app.arg
         ]_vars

\* C13 happens: a PUB node in namespace "n" sent topic "t" with one field.
C13_Witness ==
    /\ type = "PUB" /\ options.namespace_ = Ptr(NamespaceN)
    /\ app.pc = "idle" /\ app.ret = 0
    /\ axon.sent = << <<AmpString(MESSAGE_PREFIX \o NamespaceN \o NS_SEPARATOR \o TopicT),
                        AmpString(<<"w">>)>> >>

\* The calls of cote_send that must be rejected: every call on a SUB, REP
\* or MON node, and on a REQ node the calls whose first field is not JSON or
\* is a null JSON.
RejectedSend(ty, f) ==
    \/ ty \in {"SUB", "REP", "MON"}
    \/ ty = "REQ" /\ (f[1].type # "AMP_TYPE_JSON" \/ f[1].data = JNull)

\* C18: a cote_send on a SUB, REP or MON node, or on a REQ node with a first
\* field that is not JSON or is null, returns -1, hands nothing to the
\* transport and does not abort the process.
C18_SendRejected ==
    [][\A t \in SendTopics, f \in SendFields :
          (RejectedSend(type, f)
             /\ \E alloc \in BOOLEAN, addok \in BOOLEAN : cote_send(t, f, alloc, addok))
            => /\ ~crashed'
               /\ app'.pc = "idle" /\ app'.ret = -1
               /\ axon'.sent = <<>> ]_vars

\* Whether the object holds this member.
HasMember(obj, m) == obj # JNull /\ \E i \in 1..Len(obj.v) : obj.v[i] = m

\* C14: when a cote_set_option returns 0 on a node that holds a topic list
\* for its role, the advertisement the call handed to discovery holds a
\* member of the role's name whose value equals the stored list, and the
\* lookup of that name in the advertisement yields that list.
C14_ListAdvertised ==
    [][(type # "MON" /\ app.pc = "set_option_advertise"
          /\ app'.pc = "idle" /\ app'.ret = 0
          /\ options'[RoleList(type)] # JNull)
         => /\ HasMember(discover'.advertisement,
                         Member(RoleList(type), options'[RoleList(type)]))
            /\ cJSON_GetObjectItem(discover'.advertisement, RoleList(type))
                  = options'[RoleList(type)] ]_vars

\* The string of the "type" member, line 1112.
ServiceType(ty) ==
    IF ty = "MON" THEN <<"m", "o", "n", "i", "t", "o", "r">>
    ELSE <<"s", "e", "r", "v", "i", "c", "e">>

\* C15: in every advertisement handed to discovery the lookup of type, name
\* and key yields the built value, the lookup of axon_type yields the role's
\* string on every node but a monitor, and the lookup of port yields the
\* node's port on PUB and REP nodes and 0 on a monitor, whatever the
\* application's advertisement object holds.
C15_BuiltMembersWin ==
    [][discover'.advertisement # discover.advertisement
         => LET a == discover'.advertisement
            IN  /\ cJSON_GetObjectItem(a, "type") = JStr(ServiceType(type))
                /\ cJSON_GetObjectItem(a, "name") = JStr(NodeName)
                /\ cJSON_GetObjectItem(a, "key") = JStr(COTE_KEY)
                /\ type # "MON"
                     => cJSON_GetObjectItem(a, "axon_type") = JStr(OwnAxonType(type))
                /\ type \in {"PUB", "REP"}
                     => cJSON_GetObjectItem(a, "port") = JNum(port)
                /\ type = "MON" => cJSON_GetObjectItem(a, "port") = JNum(0) ]_vars

\* C16: in every advertisement handed to discovery the port member is the
\* node's port on PUB and REP nodes, 0 on a monitor and absent on SUB and REQ
\* nodes; axon_type is "pub-emitter", "sub-emitter", "req" or "rep" by role;
\* type is "monitor" on a monitor and "service" otherwise.
C16_MembersByRole ==
    [][discover'.advertisement # discover.advertisement
         => LET a == discover'.advertisement
                port_member == cJSON_GetObjectItem(a, "port")
                axon_type == cJSON_GetObjectItem(a, "axon_type")
            IN  /\ port_member = IF type \in {"PUB", "REP"} THEN JNum(port)
                                 ELSE IF type = "MON" THEN JNum(0)
                                 ELSE JNull
                /\ type = "PUB" => axon_type = JStr(AXON_PUB)
                /\ type = "SUB" => axon_type = JStr(AXON_SUB)
                /\ type = "REQ" => axon_type = JStr(AXON_REQ)
                /\ type = "REP" => axon_type = JStr(AXON_REP)
                /\ cJSON_GetObjectItem(a, "type") =
                      JStr(IF type = "MON" THEN <<"m", "o", "n", "i", "t", "o", "r">>
                           ELSE <<"s", "e", "r", "v", "i", "c", "e">>) ]_vars

\* C17: on a PUB, REQ or MON node every cote_subscribe and cote_unsubscribe
\* returns -1 and leaves the table as it was, and the table is empty in
\* every state: only SUB and REP nodes hold entries.
C17_NoTableOnOtherRoles ==
    /\ [](type \notin {"SUB", "REP"}
            => subs.first = <<>> /\ app.pc # "subscribe_table")
    /\ [][(type \notin {"SUB", "REP"}
             /\ \/ \E t \in SubscribeTopics, f \in SubscribeCallbacks, alloc \in BOOLEAN :
                      SubscribeFormat(t, f[1], f[2], alloc)
                \/ \E t \in UnsubscribeTopics : Unsubscribe(t))
            => app'.pc = "idle" /\ app'.ret = -1 /\ subs' = subs ]_vars

\* C17 happens: an API call returned -1 on a started PUB node with an empty
\* table (here only cote_subscribe and cote_unsubscribe return -1 on PUB).
C17_Witness ==
    /\ type = "PUB" /\ app.started
    /\ app.pc = "idle" /\ app.ret = -1
    /\ subs.first = <<>>

\* C19: an error raised by the transport or by discovery makes exactly one
\* call of the registered error callback, with the string as it was raised,
\* and no call when none is registered; it changes nothing else in the
\* node, and the thread that reported it returns and takes later events.
C19_ErrorForwarded ==
    /\ [][\A err \in ErrorStrings :
            /\ cote_axon_error_cb(err)
                 => /\ io'.calls = IF cb.error # "NULL"
                                     THEN <<[cb |-> "error", fct |-> cb.error,
                                             err |-> err]>>
                                     ELSE <<>>
                    /\ io'.pc = "return"
                    /\ UNCHANGED <<type, port, options, subs, cb, discover, axon,
                                   app, dsc, crashed>>
            /\ cote_discovery_error_cb("d1", err)
                 => /\ dsc'["d1"].calls = IF cb.error # "NULL"
                                            THEN <<[cb |-> "error", fct |-> cb.error,
                                                    err |-> err]>>
                                            ELSE <<>>
                    /\ dsc'["d1"].pc = "return"
                    /\ UNCHANGED <<type, port, options, subs, cb, discover, axon,
                                   app, io, crashed>> ]_vars
    /\ [](/\ ~crashed
          /\ io.pc = "return" => ENABLED IoReturn
          /\ dsc["d1"].pc = "return" => ENABLED DscReturn("d1"))

\* C19 happens: on a started node with an error callback the Axon thread
\* forwarded one error while the Discover thread forwarded another.
C19_Witness ==
    /\ discover.started /\ cb.error = "fE"
    /\ io.pc = "return"
    /\ io.calls = <<[cb |-> "error", fct |-> "fE", err |-> "axon: unable to connect"]>>
    /\ dsc["d1"].pc = "return"
    /\ dsc["d1"].calls = <<[cb |-> "error", fct |-> "fE",
                            err |-> "discover: unable to send"]>>

\* C20: cote_release frees the subscription entries only in a step taken
\* with subs.sem free, so never while a router dispatch walks the table, and
\* it cannot take that step as long as a dispatch holds the semaphore; it
\* has then released discovery first and the transport second, leaving the
\* table untouched until then; the release of a NULL node changes nothing.
C20_ReleaseWaitsForDispatch ==
    /\ [][ /\ (app.pc = "release_subs" /\ app'.pc = "release_options")
               => /\ io.pc \notin {"loop", "unlock"} /\ subs.sem = 1
                  /\ subs'.first = <<>>
           /\ (app.pc = "idle" /\ app'.pc = "release_axon")
               => ~discover'.started /\ axon' = axon /\ subs' = subs
           /\ (app.pc = "release_axon" /\ app'.pc = "release_subs")
               => ~axon'.on_message /\ ~axon'.on_bind /\ subs' = subs
           /\ (subs'.first # subs.first /\ app.pc \notin {"subscribe_table", "idle"})
               => app.pc = "release_subs"
           /\ ReleaseDiscover("NULL") => UNCHANGED vars ]_vars
    /\ []((app.pc = "release_subs" /\ io.pc \in {"loop", "unlock"})
             => ~ENABLED ReleaseSubs)

\* C20 happens: cote_release has released discovery and the transport and
\* stands at its sem_wait while the router, inside its walk over a table of
\* two entries, has invoked a subscription callback.
C20_Witness ==
    /\ app.pc = "release_subs" /\ ~axon.on_message
    /\ io.pc = "loop" /\ subs.sem = 0
    /\ Len(subs.first) = 2
    /\ \E i \in 1..Len(io.calls) : io.calls[i].cb = "subscription"

\* An inbound message with at least one field that is malformed for a node
\* of this type: the first field is no string (SUB), no JSON object (REP),
\* or a JSON object without a string member named "type" (REP).
Malformed(ty, amp) ==
    /\ amp # <<>>
    /\ \/ ty = "SUB" /\ amp[1].type # "AMP_TYPE_STRING"
       \/ ty = "REP" /\ \/ amp[1].type # "AMP_TYPE_JSON"
                        \/ amp[1].data.t # "object"
                        \/ \A i \in 1..Len(amp[1].data.v) :
                              ~(amp[1].data.v[i].k = "type"
                                  /\ amp[1].data.v[i].v.t = "string")

\* The calls of subscription and error callbacks in a sequence of calls.
RoutedCalls(calls) ==
    SelectSeq(calls, LAMBDA c : c.cb \in {"subscription", "error"})

\* C21: a message with zero fields invokes no callback; on a SUB or REP node
\* a message that is malformed for the role leads the router past its loop
\* with a null reply, and no subscription callback and no error callback is
\* invoked for it.
C21_MalformedDropped ==
    /\ [][/\ RouterEnter(<<>>) => io' = IoIdle
          /\ (type \in {"SUB", "REP"} /\ io.pc = "lock" /\ Malformed(type, io.amp)
                /\ io'.pc # "lock")
               => io'.pc = "unlock" /\ io'.ret = "NULL"
                     /\ RoutedCalls(io'.calls) = <<>> ]_vars
    /\ [](io.pc = "unlock" /\ io.topic = NULL
            => io.ret = "NULL" /\ RoutedCalls(io.calls) = <<>>)

\* C21 happens: a REP node with a subscription is about to return from the
\* router after a request that had no string "type" member: no call but the
\* one of the message callback, and a null reply.
C21_Witness ==
    /\ type = "REP" /\ subs.first # <<>> /\ subs.first[1].fct # "NULL"
    /\ io.pc = "unlock" /\ io.topic = NULL /\ io.ret = "NULL"
    /\ io.amp = <<AmpJson(JObj(<<Payload>>))>>
    /\ RoutedCalls(io.calls) = <<>>

\* Thread d has reported the removal of peer p to a SUB node that has
\* callbacks for both events and was connected to p's endpoint, and is now
\* in a later added event for a peer q that passed the check of the node and
\* advertises the same topics, which the local list matches.
LaterAdded(d, p, q) ==
    /\ type = "SUB" /\ cb.added # "NULL" /\ cb.removed # "NULL"
    /\ p # JNull /\ dsc[d].prev = p
    /\ dsc[d].ev = "added" /\ dsc[d].node = q /\ dsc[d].ret = 0
    /\ ServerTopics(type, q.advertisement) = ServerTopics(type, p.advertisement)
    /\ TopicsMatch(ClientTopics(type, options), ServerTopics(type, q.advertisement))

\* The handler found the endpoint not connected and connected to it.
Reconnected(r) ==
    /\ Len(r.calls) >= 2
    /\ r.calls[1].cb = "axon_is_connected" /\ r.calls[1].ret = FALSE
    /\ r.calls[2] = TransportCall("axon_connect", r.calls[1].ep, 0)

\* The event was ignored: the transport reported the endpoint connected.
IgnoredAsConnected(r) ==
    /\ Len(r.calls) = 1
    /\ r.calls[1].cb = "axon_is_connected" /\ r.calls[1].ret = TRUE

Dispatching == io.pc \in {"loop", "unlock"}

\* C23: an entry leaves the table only while no dispatch is in progress, the
\* walk untouched by the removal (a cote_unsubscribe issued during a dispatch
\* takes effect and returns after the walk), and every subscription callback
\* a dispatch in progress has invoked is that of an entry still in the table,
\* at the position the walk found it: no callback of a removed entry runs or
\* starts.
C23_UnsubscribeAfterDispatch ==
    /\ [][Len(subs'.first) < Len(subs.first)
            => ~Dispatching /\ subs.sem = 1 /\ io' = io /\ app'.ret = 0]_vars
    /\ [](Dispatching =>
            /\ subs.sem = 0
            /\ \A i \in 1..Len(io.calls) :
                  io.calls[i].cb = "subscription" =>
                     /\ io.calls[i].idx <= Len(subs.first)
                     /\ subs.first[io.calls[i].idx].fct = io.calls[i].fct
                     /\ subs.first[io.calls[i].idx].user = io.calls[i].user)

\* C23 witness: on a REP node a dispatch has invoked the callback of the
\* first entry and is not over; the application is outside any call, and
\* cote_unsubscribe for that entry's topic cannot take effect now.
C23_Witness ==
    /\ type = "REP" /\ io.pc = "loop" /\ app.pc = "idle"
    /\ \E i \in 1..Len(io.calls) : io.calls[i].cb = "subscription" /\ io.calls[i].idx = 1
    /\ subs.first[1].topic \in UnsubscribeTopics
    /\ ~ENABLED Unsubscribe(subs.first[1].topic)

\* The calls of cote_set_option that SpecOptions makes: option, value.
OptionCalls ==
    {<<"namespace", Ptr(NamespaceN)>>, <<"useHostNames", TRUE>>,
     <<"useHostNames", FALSE>>, <<"helloInterval", 2>>,
     <<UnknownOption, Ptr(NamespaceN)>>}
        \cup {<<o, TopicList>> : o \in JsonOptions}
        \cup {<<o, JNull>> : o \in JsonOptions}

\* The first part of cote_set_option: the builder follows exactly when the
\* option has a branch and the branch set ret to 0; nothing reaches Discover
\* in this part, and an unknown option changes nothing and fails.
StoreThenBuild ==
    /\ \A c \in OptionCalls, alloc \in BOOLEAN, dret \in {0, -1} :
          (SetOptionStore(c[1], c[2], alloc, dret) /\ app'.pc # "set_option_strdup") =>
              /\ discover' = discover
              /\ app'.pc = "set_option_advertise" <=>
                    \/ c[1] \in DiscoverOptions /\ dret = 0
                    \/ c[1] = "namespace" /\ alloc
                    \/ c[1] = "useHostNames" \/ c[1] \in JsonOptions
              /\ app'.pc # "set_option_advertise" => app' = AppReturns(-1)
              /\ c[1] = UnknownOption => options' = options /\ app' = AppReturns(-1)
    /\ (app.pc = "set_option_strdup" /\ app' # app) =>
          /\ discover' = discover
          /\ app'.pc \in {"set_option_strdup", "set_option_advertise", "idle"}
          /\ app'.pc = "set_option_advertise" => app.arg.alloc
          /\ app'.pc = "idle" => ~app.arg.alloc /\ app' = AppReturns(-1)

\* The advertisement built now from the type, the port and the options, for
\* some outcome of the copy of the topic list.
FreshAdvertisements == {BuildAdvertisement(type, port, options, dup) : dup \in BOOLEAN}

RouterReadsNamespace ==
    /\ type = "SUB" /\ io.pc = "loop" /\ io' # io
    /\ RouterInvokes(subs.first[io.idx], Val(io.topic))

\* C25: every read or write of the options and of the bound port is made
\* with options.sem held: while the thread of cote_set_option holds
\* options.sem, no other thread writes the port or reads the namespace.
C25_OptionsUnderMutex ==
    [][options.sem = 0 => port' = port /\ ~RouterReadsNamespace]_vars

\* C26: on a SUB or REQ node, from the namespace check of an added event to
\* the end of the section that asks axon_is_connected, compares the topic
\* lists and connects, options.sem stays held: while a Discover thread is
\* between the two, no cote_set_option changes the namespace, useHostNames
\* or the topic lists.
C26_MutexAcrossMatcher ==
    [][(type \in {"SUB", "REQ"} /\ \E d \in DscThreads : dsc[d].pc = "added_connect")
          => /\ options'.namespace_ = options.namespace_
             /\ options'.use_hostname = options.use_hostname
             /\ options'.subscribesTo = options.subscribesTo
             /\ options'.requests = options.requests]_vars

\* The thread that holds a semaphore across steps can take its next step:
\* the router inside the walk, cote_set_option between free and strdup.
HolderRuns ==
    /\ subs.sem = 0 => Dispatching /\ (ENABLED RouterLeave \/ ENABLED RouterStep("NULL"))
    /\ options.sem = 0 => ENABLED SetOptionStrdup

\* C27: no thread waits for options.sem while it holds subs.sem: the router,
\* the one code path that keeps subs.sem across its steps, goes on whether
\* options.sem is free or not; cote_send calls the transport with both
\* semaphores free of it; and whoever holds a semaphore can always go on, so
\* the waits for the two semaphores never form a deadlock.
C27_NoDeadlock ==
    ~crashed =>
        /\ HolderRuns
        /\ app.pc = "send_transport" => options.sem = 1 /\ subs.sem = 1

\* C27 witness: the router is inside the walk with subs.sem while
\* cote_set_option holds options.sem; both can go on.
C27_Witness ==
    /\ ~crashed /\ subs.sem = 0 /\ options.sem = 0
    /\ io.pc = "loop" /\ app.pc = "set_option_strdup"
    /\ ENABLED RouterStep("NULL") /\ ENABLED SetOptionStrdup

\* The record of the message callback invoked with this message.
MessageCall(amp) == [cb |-> "message", fct |-> cb.message, amp |-> amp]

\* C28: on a SUB or REP node with a message callback, the router invokes it
\* for every inbound message that has a field, with the message as it
\* arrived, before it takes subs.sem; it is the first and the only call of
\* the message callback for that message, every subscription callback comes
\* after it, and it does not depend on the table.
C28_MessageCallbackFirst ==
    /\ [][\A amp \in RouterMessages :
            (RouterEnter(amp) /\ type \in {"SUB", "REP"} /\ amp # <<>>
               /\ cb.message # "NULL")
              => /\ io'.calls = <<MessageCall(amp)>>
                 /\ io'.pc = "lock" /\ subs' = subs]_vars
    /\ [](\A i \in 2..Len(io.calls) : io.calls[i].cb = "subscription")
    /\ [](io.pc = "lock" => subs.sem = 1)

\* C28 witness: on a REP node the message callback was invoked with a
\* request that still held its "type" member, the router has since detached
\* it, no entry of the table matched, and the walk is over.
C28_Witness ==
    /\ type = "REP" /\ io.pc = "unlock"
    /\ subs.first # <<>> /\ subs.first[1].fct # "NULL"
    /\ io.topic = Ptr(TopicT)
    /\ Len(io.calls) = 1 /\ io.calls[1].cb = "message" /\ io.calls[1].fct = "fM"
    /\ cJSON_GetObjectItem(io.calls[1].amp[1].data, "type") = JStr(TopicT)
    /\ cJSON_GetObjectItem(io.amp[1].data, "type") = JNull

\* The call of the added callback with this peer.
AddedCall(node) == [cb |-> "added", fct |-> cb.added, node |-> node]

\* The calls of a handler that found the endpoint not connected and
\* connected to it.
ConnectedNow(calls) ==
    /\ Len(calls) >= 2
    /\ calls[1].cb = "axon_is_connected" /\ calls[1].ret = FALSE
    /\ calls[2] = TransportCall("axon_connect", calls[1].ep, 0)

\* C29: the added callback is invoked for an added event exactly when the
\* check of the node returned 0 and, on a SUB or REQ node, the handler of
\* this event called axon_connect with success: a handler that has invoked
\* it passed the check and, on SUB and REQ, found a port, an endpoint that
\* was not connected and connected to it; a handler reaches the call on PUB,
\* REP and MON whenever the check returned 0, and on SUB and REQ exactly
\* when its axon_connect returned 0; and there the callback, if set, is
\* invoked once with the peer.
C29_AddedCallback ==
    /\ [](\A d \in DscThreads :
            (dsc[d].ev = "added" /\ CallsOf(dsc[d], "added") # <<>>) =>
                /\ dsc[d].pc = "return" /\ dsc[d].ret = 0
                /\ Len(CallsOf(dsc[d], "added")) = 1
                /\ dsc[d].calls[Len(dsc[d].calls)].node = dsc[d].node
                /\ type \in {"SUB", "REQ"} =>
                      dsc[d].port # 0 /\ Len(dsc[d].calls) = 3 /\ ConnectedNow(dsc[d].calls))
    /\ [][\A d \in DscThreads :
            /\ (dsc[d].pc = "idle" /\ dsc'[d].ev = "added") =>
                  (dsc'[d].pc = "added_callback" <=>
                      dsc'[d].ret = 0 /\ type \notin {"SUB", "REQ"} /\ ~crashed')
            /\ (dsc[d].pc = "added_connect" /\ dsc'[d] # dsc[d]) =>
                  (dsc'[d].pc = "added_callback" <=> ConnectedNow(dsc'[d].calls))
            /\ (dsc[d].pc = "added_callback" /\ dsc'[d] # dsc[d]) =>
                  /\ dsc'[d].pc = "return"
                  /\ cb.added # "NULL" =>
                        dsc'[d].calls = Append(dsc[d].calls, AddedCall(dsc[d].node))
            /\ (dsc[d].pc \notin {"idle", "added_connect", "added_callback"})
                  => dsc'[d].pc # "added_callback"]_vars

\* C29 witness: on a SUB or REQ node whose list matches, an added event
\* ended in a connect and in the added callback, invoked with the peer.
C29_Witness ==
    /\ type \in {"SUB", "REQ"} /\ ClientTopics(type, options) = ClientList
    /\ \E d \in DscThreads :
          /\ dsc[d].ev = "added" /\ dsc[d].pc = "return"
          /\ Len(dsc[d].calls) = 3 /\ ConnectedNow(dsc[d].calls)
          /\ dsc[d].calls[3] = [cb |-> "added", fct |-> "fA", node |-> dsc[d].node]

\* The calls of a handler whose axon_connect failed, before the error
\* callback.
ConnectFailed(calls) ==
    /\ Len(calls) >= 2
    /\ calls[1].cb = "axon_is_connected" /\ calls[1].ret = FALSE
    /\ calls[2] = TransportCall("axon_connect", calls[1].ep, -1)

\* C30: when axon_connect fails, the handler leaves the section with
\* options.sem released and with the connections, the options and the table
\* as they were; it then invokes the error callback, if set, once, with
\* options.sem not taken by it, and returns; nothing else changes, so that
\* the next added event for the peer finds the endpoint not connected.
C30_ConnectFailure ==
    /\ [][\A d \in DscThreads :
            /\ (dsc[d].pc = "added_connect" /\ dsc'[d].pc = "connect_error") =>
                  /\ Len(dsc'[d].calls) = 2 /\ ConnectFailed(dsc'[d].calls)
                  /\ axon' = axon /\ options' = options /\ subs' = subs
            /\ (dsc[d].pc = "connect_error" /\ dsc'[d] # dsc[d]) =>
                  /\ dsc'[d].pc = "return" /\ ~crashed'
                  /\ dsc'[d].calls = dsc[d].calls \o
                        (IF cb.error # "NULL"
                           THEN <<[cb |-> "error", fct |-> cb.error,
                                   err |-> "cote: unable to connect to new node"]>>
                           ELSE <<>>)
                  /\ axon' = axon /\ options' = options /\ subs' = subs
            /\ (dsc[d].pc # "connect_error" /\ dsc'[d] # dsc[d]) =>
                  CallsOf(dsc'[d], "error") = <<>>]_vars
    /\ [](\A d \in DscThreads :
            dsc[d].pc = "connect_error" => options.sem = 1 \/ app.pc = "set_option_strdup")

\* C30 witness: one Discover thread is returning from an added event whose
\* connect failed, the error callback invoked once; the other, handling a
\* later added event for the same endpoint, found it not connected and
\* connected to it.
C30_Witness ==
    \E d, e \in DscThreads :
        /\ d # e /\ type \in {"SUB", "REQ"}
        /\ dsc[d].pc = "return" /\ Len(dsc[d].calls) = 3 /\ ConnectFailed(dsc[d].calls)
        /\ dsc[d].calls[3] = [cb |-> "error", fct |-> "fE",
                              err |-> "cote: unable to connect to new node"]
        /\ ConnectedNow(dsc[e].calls)
        /\ dsc[e].calls[1].ep = dsc[d].calls[1].ep
        /\ dsc[e].node = dsc[d].node

\* C31: on a MON node, the handler of every added or removed event whose
\* peer carries an advertisement passes the check, whatever the axon_type,
\* key and namespace of the peer, and invokes the callback of the event, if
\* set, with the peer; only a peer without advertisement is dropped; and no
\* handler calls the transport: nothing is connected.
C31_MonitorAcceptsAll ==
    /\ [](type = "MON" =>
            /\ axon.conns = EmptyBag
            /\ \A d \in DscThreads :
                 /\ dsc[d].pc # "added_connect"
                 /\ \A i \in 1..Len(dsc[d].calls) :
                      dsc[d].calls[i].cb \in {"added", "removed"}
                 /\ Dropped(dsc[d]) => dsc[d].node.advertisement = JNull)
    /\ [][type = "MON" =>
            \A d \in DscThreads :
               /\ (dsc[d].pc = "idle" /\ dsc'[d].pc # "idle") =>
                     IF dsc'[d].node.advertisement = JNull
                     THEN Dropped(dsc'[d])
                     ELSE /\ dsc'[d].pc = IF dsc'[d].ev = "added" THEN "added_callback"
                                                               ELSE "removed_callback"
                          /\ dsc'[d].ret = 0
               /\ (dsc[d].pc \in {"added_callback", "removed_callback"} /\ dsc'[d] # dsc[d]) =>
                     /\ dsc'[d].pc = "return"
                     /\ dsc'[d].calls =
                          IF cb[dsc[d].ev] # "NULL"
                          THEN <<[cb |-> dsc[d].ev, fct |-> cb[dsc[d].ev], node |-> dsc[d].node]>>
                          ELSE <<>>]_vars

\* C31 witness: a MON node with a namespace has invoked its added callback
\* for a peer that has no key, no namespace and the axon_type "req".
C31_Witness ==
    /\ type = "MON" /\ options.namespace_ # NULL
    /\ \E d \in DscThreads :
         /\ dsc[d].pc = "return" /\ dsc[d].ev = "added"
         /\ cJSON_GetObjectItem(dsc[d].node.advertisement, "key") = JNull
         /\ cJSON_GetObjectItem(dsc[d].node.advertisement, "namespace") = JNull
         /\ cJSON_GetObjectItem(dsc[d].node.advertisement, "axon_type") = JStr(AXON_REQ)
         /\ dsc[d].calls = <<[cb |-> "added", fct |-> cb.added, node |-> dsc[d].node]>>

\* The validation of a peer as the specification states it: an advertisement
\* and, on a node that is no monitor, the axon_type of the counterpart, the
\* key "$$", and the namespace of the node (none when the node has none).
Validated(ty, ns, node) ==
    /\ node.advertisement # JNull
    /\ ty # "MON" =>
          /\ cJSON_GetObjectItem(node.advertisement, "axon_type") = JStr(Counterpart(ty))
          /\ cJSON_GetObjectItem(node.advertisement, "key") = JStr(COTE_KEY)
          /\ cJSON_GetObjectItem(node.advertisement, "namespace") =
                IF ns = NULL THEN JNull ELSE JStr(Val(ns))

\* C32: the handler of an event, removed or added, gets 0 from the check of
\* the node exactly when the peer is validated against the options at that
\* moment; the removed handler goes on to the removed callback exactly then,
\* invokes it, if set, once with the peer, and calls nothing else; no step
\* of a removed handler changes the connections, the options or the table.
C32_RemovedValidated ==
    /\ [](\A d \in DscThreads :
            dsc[d].ev = "removed" =>
                \A i \in 1..Len(dsc[d].calls) :
                    dsc[d].calls[i] = [cb |-> "removed", fct |-> cb.removed, node |-> dsc[d].node]
                        /\ i = 1 /\ dsc[d].pc = "return")
    /\ [][\A d \in DscThreads :
            /\ (dsc[d].pc = "idle" /\ dsc'[d].pc # "idle") =>
                  /\ (dsc'[d].ret = 0 /\ dsc'[d].pc # "killed")
                        <=> Validated(type, options.namespace_, dsc'[d].node)
                  /\ dsc'[d].ev = "removed" =>
                        (dsc'[d].pc = "removed_callback" <=> dsc'[d].ret = 0)
            /\ (dsc[d].pc = "removed_callback" /\ dsc'[d] # dsc[d]) =>
                  /\ dsc'[d].pc = "return"
                  /\ Len(dsc'[d].calls) = IF cb.removed # "NULL" THEN 1 ELSE 0
            /\ (dsc'[d] # dsc[d] /\ "removed" \in {dsc[d].ev, dsc'[d].ev}) =>
                  axon' = axon /\ options' = options /\ subs' = subs]_vars

\* C32 witness: a SUB node with a namespace and a connection has invoked its
\* removed callback for a peer of that namespace; the connection is there.
C32_Witness ==
    /\ type = "SUB" /\ options.namespace_ = Ptr(NamespaceN) /\ axon.conns # EmptyBag
    /\ \E d \in DscThreads :
         /\ dsc[d].pc = "return" /\ dsc[d].ev = "removed"
         /\ Validated(type, options.namespace_, dsc[d].node)
         /\ dsc[d].calls = <<[cb |-> "removed", fct |-> cb.removed, node |-> dsc[d].node]>>

\* C33: on a SUB or REQ node, an added event for a validated peer with a
\* positive port reaches the matcher; there, with a null local list, the
\* handler calls axon_connect whatever the peer's list is, unless the
\* transport reports the endpoint connected already, and a successful call
\* leaves the endpoint connected; with a local list that is not null, it
\* calls no axon_connect and no callback for a peer whose list is absent or
\* empty, nor for any peer when the local list is empty.
C33_NullListMatchesAll ==
    [][\A d \in DscThreads :
          type \in {"SUB", "REQ"} =>
            /\ (/\ dsc[d].pc = "idle" /\ dsc'[d].ev = "added"
                /\ Validated(type, options.namespace_, dsc'[d].node)
                /\ NodePort(dsc'[d].node) > 0)
                  => dsc'[d].pc = "added_connect"
            /\ (dsc[d].pc = "added_connect" /\ dsc'[d] # dsc[d]) =>
                  LET client_topics == ClientTopics(type, options)
                      server_topics == ServerTopics(type, dsc[d].node.advertisement)
                      ep == Endpoint(options, dsc[d].node, dsc[d].port)
                      connects == CallsOf(dsc'[d], "axon_connect")
                  IN  /\ (client_topics = JNull /\ ~AlreadyConnected(axon.conns, ep)) =>
                            /\ Len(connects) = 1 /\ connects[1].ep = ep
                            /\ connects[1].ret = 0 =>
                                  /\ AlreadyConnected(axon'.conns, ep)
                                  /\ dsc'[d].pc = "added_callback"
                      /\ (/\ client_topics # JNull
                          /\ \/ server_topics = JNull
                             \/ cJSON_GetArraySize(server_topics) = 0
                             \/ cJSON_GetArraySize(client_topics) = 0) =>
                            /\ connects = <<>> /\ dsc'[d].pc = "return"
                            /\ axon' = axon]_vars

\* C33 witness: a node without local list has connected to a peer that
\* advertises no list, and invoked the added callback.
C33_Witness ==
    /\ type \in {"SUB", "REQ"} /\ ClientTopics(type, options) = JNull
    /\ \E d \in DscThreads :
         /\ dsc[d].pc = "return" /\ dsc[d].ev = "added"
         /\ ServerTopics(type, dsc[d].node.advertisement) = JNull
         /\ Reconnected(dsc[d]) /\ Len(dsc[d].calls) = 3
         /\ AlreadyConnected(axon.conns, Endpoint(options, dsc[d].node, dsc[d].port))

\* C34: on a PUB or REP node, whenever discovery is running, the socket is
\* bound and the lookup of "port" in the advertisement last handed to
\* discovery yields the port the bind event reported, whatever cote_set_option
\* and cote_advertise calls ran before, between and after the steps of the
\* bind callback.
C34_AdvertisedPortIsBound ==
    (type \in {"PUB", "REP"} /\ discover.started) =>
        /\ axon.bound /\ port \in BoundPorts
        /\ cJSON_GetObjectItem(discover.advertisement, "port") = JNum(port)

\* The entries of the chain whose stored fulltopic is not this string, in
\* their order.
OtherEntries(chain, topic) == SelectSeq(chain, LAMBDA e : e.topic # topic)

NotAString(adv, name) ==
    /\ adv # JNull
    /\ cJSON_GetObjectItem(adv, name) # JNull
    /\ cJSON_GetObjectItem(adv, name).t # "string"

\* C36: on a node that is no monitor, the handler of an added or removed
\* event for a peer whose axon_type, key or namespace member is present but
\* not a JSON string returns from the check with -1, having called neither
\* the transport nor a callback, and the process goes on: no handler is
\* killed in the check.
C36_NonStringIgnored ==
    type # "MON" =>
        \A d \in DscThreads :
            (/\ dsc[d].pc # "idle"
             /\ \E name \in {"axon_type", "key", "namespace"} :
                   NotAString(dsc[d].node.advertisement, name))
            => Dropped(dsc[d]) /\ ~crashed

\* ------------------------------------------------------------- semaphore calls
\* The calls of sem_wait and sem_post along the return paths of the library,
\* each with the line of cote.c it stands on.  A path is the sequence of
\* these calls a thread makes from the entry of an operation to its return.
SemWait(s, line) == [fn |-> "sem_wait", sem |-> s, line |-> line]
SemPost(s, line) == [fn |-> "sem_post", sem |-> s, line |-> line]

\* cote_discovery_set_advertisement, lines 1097-1157: the allocation of the
\* advertisement fails (1108) or the advertisement is pushed (1155).
SemPaths_cote_discovery_set_advertisement ==
    { [ret |-> -1, ops |-> <<SemWait("options", 1097), SemPost("options", 1108)>>],
      [ret |-> 0, ops |-> <<SemWait("options", 1097), SemPost("options", 1155)>>] }

\* cote_axon_format_fulltopic, lines 894-926: on PUB and SUB the namespace is
\* read under options.sem and malloc fails (906) or not (918); on REQ and REP
\* the topic is copied without semaphore; on MON nothing is done.
SemPaths_cote_axon_format_fulltopic(ty) ==
    IF ty \in {"PUB", "SUB"}
        THEN { [ret |-> -1, ops |-> <<SemWait("options", 895), SemPost("options", 906)>>],
               [ret |-> 0, ops |-> <<SemWait("options", 895), SemPost("options", 918)>>] }
    ELSE IF ty \in {"REQ", "REP"}
        THEN { [ret |-> -1, ops |-> <<>>], [ret |-> 0, ops |-> <<>>] }
    ELSE { [ret |-> -1, ops |-> <<>>] }

\* Mutant of SemPaths_cote_discovery_check_node: the return of the namespace
\* mismatch has no sem_post.
SemPaths_cote_discovery_check_node_NoPost(ty) ==
    { [ret |-> -1, ops |-> <<>>] } \cup
    (IF ty = "MON" THEN { [ret |-> 0, ops |-> <<>>] }
     ELSE { [ret |-> -1, ops |-> <<SemWait("options", 1204), SemPost("options", 1208)>>],
            [ret |-> -1, ops |-> <<SemWait("options", 1204)>>],
            [ret |-> -1, ops |-> <<SemWait("options", 1204), SemPost("options", 1219)>>],
            [ret |-> 0, ops |-> <<SemWait("options", 1204), SemPost("options", 1223)>>] })

\* cote_discovery_check_node, lines 1173-1226: the returns before the
\* sem_wait (no advertisement, axon_type, key; every peer on MON), then the
\* peer without namespace (1208), the namespace mismatch (1213), the
\* namespace that is not expected (1219), and the valid node (1223).
SemPaths_cote_discovery_check_node(ty) ==
    { [ret |-> -1, ops |-> <<>>] } \cup
    (IF ty = "MON" THEN { [ret |-> 0, ops |-> <<>>] }
     ELSE { [ret |-> -1, ops |-> <<SemWait("options", 1204), SemPost("options", 1208)>>],
            [ret |-> -1, ops |-> <<SemWait("options", 1204), SemPost("options", 1213)>>],
            [ret |-> -1, ops |-> <<SemWait("options", 1204), SemPost("options", 1219)>>],
            [ret |-> 0, ops |-> <<SemWait("options", 1204), SemPost("options", 1223)>>] })

\* cote_discovery_added_cb, lines 945-1035: after a check that returned 0, a
\* SUB or REQ node returns for a port 0 (964) or enters the section of line
\* 968, which ends for an endpoint already connected (973), without topic
\* match (1013), with a failed connect (1020) or with the connection (1029).
SemPaths_cote_discovery_added_cb(ty) ==
    UNION { IF c.ret # 0 \/ ty \notin {"SUB", "REQ"} THEN {c.ops}
            ELSE {c.ops} \cup
                 { c.ops \o <<SemWait("options", 968), SemPost("options", line)>> :
                      line \in {973, 1013, 1020, 1029} } :
            c \in SemPaths_cote_discovery_check_node(ty) }

\* cote_discovery_removed_cb, lines 1054-1061: the check and nothing else.
SemPaths_cote_discovery_removed_cb(ty) ==
    { c.ops : c \in SemPaths_cote_discovery_check_node(ty) }

\* cote_set_option, lines 232-322: the option is stored under options.sem
\* and, if that gave 0, the advertisement is set.
SemPaths_cote_set_option ==
    LET store == <<SemWait("options", 232), SemPost("options", 315)>>
    IN  {store} \cup { store \o a.ops : a \in SemPaths_cote_discovery_set_advertisement }

\* cote_advertise, lines 383-395.
SemPaths_cote_advertise ==
    { <<SemWait("options", 383), SemPost("options", 392)>> \o a.ops :
         a \in SemPaths_cote_discovery_set_advertisement }

\* cote_start, lines 335-368, and cote_axon_bind_cb, lines 714-741: the
\* advertisement is set by cote_start on SUB, REQ and MON, by the bind
\* callback on PUB and REP.
SemPaths_cote_start(ty) ==
    IF ty \in {"PUB", "REP"} THEN { <<>> }
    ELSE { a.ops : a \in SemPaths_cote_discovery_set_advertisement }

SemPaths_cote_axon_bind_cb(ty) ==
    IF ty \in {"PUB", "REP"}
        THEN { a.ops : a \in SemPaths_cote_discovery_set_advertisement }
    ELSE { <<>> }

\* cote_subscribe, lines 444-506: the type check (447), the namer and its
\* failure (454), then the table under subs.sem, left through LEAVE on every
\* branch (469, 480, 488, 498-501).
SemPaths_cote_subscribe(ty) ==
    IF ty \notin {"SUB", "REP"} THEN { <<>> }
    ELSE { IF f.ret # 0 THEN f.ops
           ELSE f.ops \o <<SemWait("subs", 461), SemPost("subs", 501)>> :
           f \in SemPaths_cote_axon_format_fulltopic(ty) }

\* cote_unsubscribe, lines 521-554.
SemPaths_cote_unsubscribe(ty) ==
    IF ty \notin {"SUB", "REP"} THEN { <<>> }
    ELSE { <<SemWait("subs", 530), SemPost("subs", 552)>> }

\* cote_send, lines 572-633: the namer on PUB, no semaphore on REQ.
SemPaths_cote_send(ty) ==
    IF ty = "PUB" THEN { f.ops : f \in SemPaths_cote_axon_format_fulltopic(ty) }
    ELSE { <<>> }

\* cote_axon_message_cb, lines 763-855: the returns for a message without
\* field or without topic (766, 772), then the dispatch under subs.sem.
SemPaths_cote_axon_message_cb ==
    { <<>>, <<SemWait("subs", 783), SemPost("subs", 853)>> }

\* The paths of the application's calls, of the Axon thread's callbacks and
\* of the Discover threads' callbacks.
AppSemPaths(ty) ==
    SemPaths_cote_set_option \cup SemPaths_cote_advertise \cup SemPaths_cote_start(ty)
        \cup SemPaths_cote_subscribe(ty) \cup SemPaths_cote_unsubscribe(ty)
        \cup SemPaths_cote_send(ty)
IoSemPaths(ty) == SemPaths_cote_axon_bind_cb(ty) \cup SemPaths_cote_axon_message_cb
DscSemPaths(ty) ==
    SemPaths_cote_discovery_added_cb(ty) \cup SemPaths_cote_discovery_removed_cb(ty)

\* A thread on a path: ops is the path, i the position of its next call.
SemAt(ops, i) == [pc |-> "sem_ops", ops |-> ops, i |-> i]

\* sem_wait and sem_post on the semaphore of the call: sem_wait returns only
\* once the count is positive and decrements it, sem_post increments it.
SemCall(op) ==
    LET count == IF op.sem = "options" THEN options.sem ELSE subs.sem
        after == IF op.fn = "sem_wait" THEN count - 1 ELSE count + 1
    IN  /\ op.fn = "sem_wait" => count > 0
        /\ options' = IF op.sem = "options" THEN [options EXCEPT !.sem = after] ELSE options
        /\ subs' = IF op.sem = "subs" THEN [subs EXCEPT !.sem = after] ELSE subs

\* The application thread enters an operation, makes its next semaphore
\* call, returns.
AppSemEnter(ops) ==
    /\ ~crashed /\ app.pc = "idle"
    /\ app' = AppAt("sem_ops", SemAt(ops, 1))
    /\ UNCHANGED <<type, port, options, subs, cb, discover, axon, io, dsc, crashed>>

AppSemCall ==
    /\ ~crashed /\ app.pc = "sem_ops" /\ app.arg.i <= Len(app.arg.ops)
    /\ SemCall(app.arg.ops[app.arg.i])
    /\ app' = [app EXCEPT !.arg.i = @ + 1]
    /\ UNCHANGED <<type, port, cb, discover, axon, io, dsc, crashed>>

AppSemReturn ==
    /\ ~crashed /\ app.pc = "sem_ops" /\ app.arg.i > Len(app.arg.ops)
    /\ app' = AppReturns(0)
    /\ UNCHANGED <<type, port, options, subs, cb, discover, axon, io, dsc, crashed>>

\* The same for a callback on the Axon thread.
IoSemEnter(ops) ==
    /\ ~crashed /\ io.pc = "idle"
    /\ io' = SemAt(ops, 1)
    /\ UNCHANGED <<type, port, options, subs, cb, discover, axon, app, dsc, crashed>>

IoSemCall ==
    /\ ~crashed /\ io.pc = "sem_ops" /\ io.i <= Len(io.ops)
    /\ SemCall(io.ops[io.i])
    /\ io' = [io EXCEPT !.i = @ + 1]
    /\ UNCHANGED <<type, port, cb, discover, axon, app, dsc, crashed>>

IoSemReturn ==
    /\ ~crashed /\ io.pc = "sem_ops" /\ io.i > Len(io.ops)
    /\ io' = IoIdle
    /\ UNCHANGED <<type, port, options, subs, cb, discover, axon, app, dsc, crashed>>

\* The same for a callback on a Discover thread.
DscSemEnter(d, ops) ==
    /\ ~crashed /\ dsc[d].pc = "idle"
    /\ dsc' = [dsc EXCEPT ![d] = SemAt(ops, 1)]
    /\ UNCHANGED <<type, port, options, subs, cb, discover, axon, app, io, crashed>>

DscSemCall(d) ==
    /\ ~crashed /\ dsc[d].pc = "sem_ops" /\ dsc[d].i <= Len(dsc[d].ops)
    /\ SemCall(dsc[d].ops[dsc[d].i])
    /\ dsc' = [dsc EXCEPT ![d].i = @ + 1]
    /\ UNCHANGED <<type, port, cb, discover, axon, app, io, crashed>>

DscSemReturn(d) ==
    /\ ~crashed /\ dsc[d].pc = "sem_ops" /\ dsc[d].i > Len(dsc[d].ops)
    /\ dsc' = [dsc EXCEPT ![d] = DscIdle]
    /\ UNCHANGED <<type, port, options, subs, cb, discover, axon, app, io, crashed>>

\* The semaphores: the three kinds of thread run the operations of the
\* library, each along any of its return paths, one semaphore call at a time.
NextSems ==
    \/ \E ops \in AppSemPaths(type) : AppSemEnter(ops)
    \/ AppSemCall
    \/ AppSemReturn
    \/ \E ops \in IoSemPaths(type) : IoSemEnter(ops)
    \/ IoSemCall
    \/ IoSemReturn
    \/ \E d \in DscThreads, ops \in DscSemPaths(type) : DscSemEnter(d, ops)
    \/ \E d \in DscThreads : DscSemCall(d)
    \/ \E d \in DscThreads : DscSemReturn(d)

SpecSems == Init /\ [][NextSems]_vars

\* The calls a thread on a path has made so far, and how many counts of the
\* semaphore s it holds after them.
SemCallsMade(th) == IF th.pc = "sem_ops" THEN SubSeq(th.ops, 1, th.i - 1) ELSE <<>>
SemCalls(calls, f, s) == Len(SelectSeq(calls, LAMBDA op : op.fn = f /\ op.sem = s))
SemHeld(th, s) ==
    SemCalls(SemCallsMade(th), "sem_wait", s) - SemCalls(SemCallsMade(th), "sem_post", s)

\* The threads of the node.
SemThreads ==
    <<IF app.pc = "sem_ops" THEN app.arg ELSE app, io, dsc["d1"], dsc["d2"]>>

\* C37: each of the two semaphores counts 0 or 1 in every state: 1 less the
\* number of threads between a sem_wait and the next sem_post on it, which is
\* at most one thread; and a thread that has reached the return of an
\* operation, whichever path it took, has made as many sem_post as sem_wait
\* on each semaphore, one sem_post after each sem_wait.
C37_BinarySemaphores ==
    /\ options.sem \in {0, 1} /\ subs.sem \in {0, 1}
    /\ \A s \in {"options", "subs"} :
         /\ (IF s = "options" THEN options.sem ELSE subs.sem) =
               1 - (SemHeld(SemThreads[1], s) + SemHeld(SemThreads[2], s)
                      + SemHeld(SemThreads[3], s) + SemHeld(SemThreads[4], s))
         /\ \A n \in 1..4 :
              /\ SemHeld(SemThreads[n], s) \in {0, 1}
              /\ (SemThreads[n].pc = "sem_ops" /\ SemThreads[n].i > Len(SemThreads[n].ops))
                    => SemHeld(SemThreads[n], s) = 0

\* C37 witness: a Discover thread is at the return of the check of a peer of
\* another namespace, its sem_post of line 1213 made, while the application
\* is inside cote_subscribe after its sem_wait on the table, and the Axon
\* thread has yet to get the table for a message.
C37_Witness ==
    /\ \E d \in DscThreads :
         /\ dsc[d].pc = "sem_ops" /\ dsc[d].i > Len(dsc[d].ops)
         /\ dsc[d].ops = <<SemWait("options", 1204), SemPost("options", 1213)>>
    /\ app.pc = "sem_ops" /\ app.arg.i = 4
    /\ app.arg.ops[3] = SemWait("subs", 461)
    /\ io.pc = "sem_ops" /\ io.i = 1 /\ io.ops # <<>>
    /\ options.sem = 1 /\ subs.sem = 0

\* C38: whenever the router of a SUB node invokes a subscription callback,
\* with the namespace of the node set and not being replaced at that moment,
\* the number of characters it skips is at most the length of the inbound
\* topic, and the topic it hands over is the rest of that string.
C38_SkipWithinTopic ==
    [][(/\ type = "SUB" /\ io.pc = "loop" /\ ~NamespaceFreed
        /\ Len(io'.calls) > Len(io.calls))
          => /\ TopicSkip(options.namespace_) <= Len(Val(io.topic))
             /\ io'.calls[Len(io'.calls)].topic =
                   Ptr(SubSeq(Val(io.topic), TopicSkip(options.namespace_) + 1,
                              Len(Val(io.topic))))]_vars

\* ------------------------------------------------------------- callbacks that call back
\* Callbacks of the application that call cote_unsubscribe on their own node
\* before they return.
ReentrantCallbacks == {"fU"}

\* Lines 763-779 with such a message callback: the callback is invoked and
\* is at its call of cote_unsubscribe; the router has not reached sem_wait.
RouterEnterReentrant(amp) ==
    /\ ~crashed /\ io.pc = "idle"
    /\ axon.on_message
    /\ type \in {"SUB", "REP"} /\ amp # <<>>
    /\ cb.message \in ReentrantCallbacks
    /\ io' = [IoIdle EXCEPT !.pc = "message_cb", !.amp = amp,
                !.calls = <<[cb |-> "message", fct |-> cb.message, amp |-> amp]>>]
    /\ UNCHANGED <<type, port, options, subs, cb, discover, axon, app, dsc, crashed>>

\* Lines 798-810 and 832-840 with such a subscription callback: the entry
\* matches, the callback is invoked, under subs.sem, and is at its call of
\* cote_unsubscribe.
RouterStepReentrant ==
    /\ ~crashed /\ io.pc = "loop"
    /\ LET e == subs.first[io.idx]
       IN  /\ e.fct \in ReentrantCallbacks
           /\ RouterInvokes(e, Val(io.topic))
           /\ \E o \in NamespaceRead(type, TRUE) :
                 IF o = "SIGSEGV" THEN
                     /\ crashed' = TRUE
                     /\ io' = [io EXCEPT !.pc = "killed"]
                 ELSE
                     /\ crashed' = crashed
                     /\ io' = [io EXCEPT
                          !.pc = "subscription_cb",
                          !.calls = Append(io.calls,
                                      [cb |-> "subscription", idx |-> io.idx,
                                       fct |-> e.fct, user |-> e.user,
                                       topic |-> IF o = "garbage"
                                                 THEN WildTopicArg(Val(io.topic))
                                                 ELSE RouterTopicArg(type,
                                                    options.namespace_, Val(io.topic)),
                                       amp |-> io.amp,
                                       ret |-> "NULL"])]
    /\ UNCHANGED <<type, port, options, subs, cb, discover, axon, app, dsc>>

\* cote_unsubscribe, lines 530-554, called by the callback the Axon thread
\* is in: sem_wait returns once subs.sem is free, the entry is removed, the
\* callback returns and the router goes on, to its own sem_wait after the
\* message callback, to the next entry after a subscription callback.
CallbackUnsubscribe(topic) ==
    /\ ~crashed /\ io.pc \in {"message_cb", "subscription_cb"}
    /\ subs.sem = 1
    /\ subs' = [subs EXCEPT !.first = UnsubscribeChain(@, topic)]
    /\ io' = IF io.pc = "message_cb" THEN [io EXCEPT !.pc = "lock"]
             ELSE [io EXCEPT !.pc = "loop", !.idx = @ + 1]
    /\ UNCHANGED <<type, port, options, cb, discover, axon, app, dsc, crashed>>

\* The callback that the router is about to invoke, if any, returns.
ReturningCallback ==
    io.pc = "loop" =>
        ~(subs.first[io.idx].fct \in ReentrantCallbacks
            /\ RouterInvokes(subs.first[io.idx], Val(io.topic)))

\* Callbacks that call back: the application registers callbacks that
\* return and callbacks that call cote_unsubscribe, sets and replaces the
\* namespace, and messages are dispatched.
NextReentry ==
    \/ Lifecycle({TRUE}, {7001})
    \/ \E f \in {"fM"} \cup ReentrantCallbacks : cote_on("message", f)
    \/ SetOptionStore("namespace", Ptr(NamespaceN), TRUE, 0)
    \/ SetOptionStrdup
    \/ \E f \in {"fA"} \cup ReentrantCallbacks : SubscribeFormat(TopicT, f, "uA", TRUE)
    \/ SubscribeTable(TRUE)
    \/ \E amp \in LockMessages : cb.message \notin ReentrantCallbacks /\ RouterEnter(amp)
    \/ \E amp \in LockMessages : RouterEnterReentrant(amp)
    \/ \E topic \in UnsubscribeTopics : CallbackUnsubscribe(topic)
    \/ RouterLock
    \/ \E r \in Replies : ReturningCallback /\ RouterStep(r)
    \/ RouterStepReentrant
    \/ RouterLeave

SpecReentry == Init /\ [][NextReentry]_vars

\* C39: whenever subs.sem is taken, the Axon thread holds it inside a
\* dispatch; a dispatch whose callback returns is at an entry of the table
\* and can take its next step, and at the end of the walk it can release
\* subs.sem: it goes on to its sem_post; a dispatch inside a subscription
\* callback that calls cote_unsubscribe on the node holds subs.sem, and that
\* call cannot get it: the callback never returns.
C39_DispatchCompletes ==
    /\ subs.sem = 0 =>
          /\ io.pc \in {"loop", "unlock", "subscription_cb"}
          /\ (io.pc = "loop" /\ ReturningCallback) =>
                io.idx \in 1..Len(subs.first) /\ ENABLED RouterStep("NULL")
          /\ io.pc = "unlock" => ENABLED RouterLeave
    /\ io.pc = "subscription_cb" =>
          /\ subs.sem = 0
          /\ \A topic \in UnsubscribeTopics : ~ENABLED CallbackUnsubscribe(topic)

====
